---- MODULE Spec2Model ----
(***************************************************************************)
(* Facility lookup and ranking engine (backend/app/services).              *)
(*                                                                         *)
(* Three service modules (open_status_pharmacy, hospital, emergency) each  *)
(* own a module-level cache (_cache, _cache_ts) and a lookup handler.      *)
(* The modules share no state, so a run of the process projects onto one   *)
(* run per module: the variable svc, fixed at Init, says which module the  *)
(* behaviour is a run of.                                                  *)
(*                                                                         *)
(* Python values are tagged records: [t |-> "none"], [t |-> "str", s |->   *)
(* <<chars>>], [t |-> "int", n |-> k], [t |-> "dict", d |-> fields]; a     *)
(* string is the sequence of its characters, so strip(), isdigit(), int(), *)
(* slicing and substring search are computed, not assumed.                 *)
(***************************************************************************)
EXTENDS Integers, Sequences, FiniteSets, TLC

VARIABLES
    svc,        \* which service module this behaviour runs
    now,        \* time.monotonic(), in seconds
    cache,      \* _cache    : key -> record list (ABSENT when the key is not in the dict)
    cache_ts,   \* _cache_ts : key -> monotonic time of the put
    last,       \* what the last call of a handler did and returned
    hist,       \* history: key -> the last list an upstream fetch stored, and when
    ev,         \* status evaluator under test: its inputs and its result
    hashseed    \* the salt of the process's str hash (PYTHONHASHSEED, random per start)

vars == <<svc, now, cache, cache_ts, last, hist, ev, hashseed>>

(***************************************************************************)
(* Python values                                                           *)
(***************************************************************************)
None == [t |-> "none"]
ABSENT == [t |-> "absent"]
Str(s) == [t |-> "str", s |-> s]
S(a, b, c, d) == Str(<<a, b, c, d>>)
Num(n) == [t |-> "int", n |-> n]
Flt(n) == [t |-> "float", n |-> n]
List(l) == [t |-> "list", l |-> l]
Dict(d) == [t |-> "dict", d |-> d]
RAISED == [t |-> "raise"]

EmptyMap == [k \in {} |-> None]

\* no handler has been called yet
Idle == [op |-> "none"]

\* bool(v): None, "", 0, 0.0, [] and {} are falsy
Truthy(v) ==
    CASE v.t = "none"  -> FALSE
      [] v.t = "str"   -> v.s # <<>>
      [] v.t = "int"   -> v.n # 0
      [] v.t = "float" -> v.n # 0
      [] v.t = "list"  -> v.l # <<>>
      [] v.t = "dict"  -> DOMAIN v.d # {}
      [] OTHER         -> TRUE

\* dict.get(key, default): a dict is a function over the known field names,
\* ABSENT marks a key the dict does not hold
Get(item, key, default) ==
    IF key \in DOMAIN item /\ item[key] # ABSENT THEN item[key] ELSE default

(***************************************************************************)
(* Characters.  Digits, ASCII letters (standing also for Hangul, which the *)
(* name pattern keeps alike), whitespace and punctuation.                  *)
(***************************************************************************)
Digits == <<"0", "1", "2", "3", "4", "5", "6", "7", "8", "9">>
DigitChars == {Digits[i] : i \in 1..10}
LetterChars == {"a", "b", "c", "d", "e"}
SpaceChars == {" "}
PunctChars == {":", "-", "."}

DigitVal(c) == (CHOOSE i \in 1..10 : Digits[i] = c) - 1

\* str.isdigit(): non-empty and every character a digit
IsDigitStr(s) == s # <<>> /\ \A i \in 1..Len(s) : s[i] \in DigitChars

RECURSIVE LStrip(_)
LStrip(s) == IF s # <<>> /\ Head(s) \in SpaceChars THEN LStrip(Tail(s)) ELSE s

RECURSIVE RStrip(_)
RStrip(s) ==
    IF s # <<>> /\ s[Len(s)] \in SpaceChars THEN RStrip(SubSeq(s, 1, Len(s) - 1)) ELSE s

\* str.strip()
Strip(s) == RStrip(LStrip(s))

\* int(s) of a digit string
RECURSIVE PyInt(_)
PyInt(s) == IF s = <<>> THEN 0 ELSE 10 * PyInt(SubSeq(s, 1, Len(s) - 1)) + DigitVal(s[Len(s)])

(***************************************************************************)
(* Duty-hour fields and the status evaluators                              *)
(***************************************************************************)
DAY_FIELDS ==
    [d \in 0..6 |->
        CASE d = 0 -> <<"dutyTime1s", "dutyTime1c">>
          [] d = 1 -> <<"dutyTime2s", "dutyTime2c">>
          [] d = 2 -> <<"dutyTime3s", "dutyTime3c">>
          [] d = 3 -> <<"dutyTime4s", "dutyTime4c">>
          [] d = 4 -> <<"dutyTime5s", "dutyTime5c">>
          [] d = 5 -> <<"dutyTime6s", "dutyTime6c">>
          [] d = 6 -> <<"dutyTime7s", "dutyTime7c">>]

HOLIDAY_FIELDS == <<"dutyTime8s", "dutyTime8c">>

\* DAY_FIELDS.get(day_idx, DAY_FIELDS[0])
DayPair(day_idx) == IF day_idx \in DOMAIN DAY_FIELDS THEN DAY_FIELDS[day_idx] ELSE DAY_FIELDS[0]

\* mutant: the length of the digit string is checked (only 4 digits parse)
parse_hhmm_strict(raw) ==
    IF ~Truthy(raw) THEN None
    ELSE IF IsDigitStr(raw.s) /\ Len(raw.s) = 4 THEN Num(PyInt(raw.s)) ELSE None

\* mutant: a missing value parses as midnight
parse_hhmm_default0(raw) ==
    IF ~Truthy(raw) THEN Num(0)
    ELSE IF IsDigitStr(Strip(raw.s)) THEN Num(PyInt(Strip(raw.s))) ELSE None

\* _parse_hhmm(raw: Optional[str]): None or empty -> None; else the stripped
\* text as an integer when it is all digits, None otherwise
_parse_hhmm(raw) ==
    IF ~Truthy(raw) THEN None
    ELSE LET cleaned == Strip(raw.s)
         IN  IF IsDigitStr(cleaned) THEN Num(PyInt(cleaned)) ELSE None

\* _hhmm_to_display(raw): '2100' -> '21:00', anything else -> None
_hhmm_to_display(raw) ==
    IF Truthy(raw) /\ Len(raw.s) = 4 /\ IsDigitStr(raw.s)
    THEN Str(SubSeq(raw.s, 1, 2) \o <<":">> \o SubSeq(raw.s, 3, 4))
    ELSE None

\* mutant: the close bound is exclusive
is_open_exclusive(item, now_hhmm, day_idx) ==
    LET start_key == DayPair(day_idx)[1]
        close_key == DayPair(day_idx)[2]
        start == _parse_hhmm(Get(item, start_key, None))
        close == _parse_hhmm(Get(item, close_key, None))
    IN  IF start = None \/ close = None THEN <<"UNKNOWN", None>>
        ELSE IF start.n <= now_hhmm /\ now_hhmm < close.n
             THEN <<"OPEN", _hhmm_to_display(Get(item, close_key, None))>>
             ELSE <<"CLOSED", None>>

\* mutant: a weekday without hours borrows the holiday pair
is_open_borrowing(item, now_hhmm, day_idx) ==
    LET borrow == ~Truthy(Get(item, DayPair(day_idx)[1], None))
        start_key == IF borrow THEN HOLIDAY_FIELDS[1] ELSE DayPair(day_idx)[1]
        close_key == IF borrow THEN HOLIDAY_FIELDS[2] ELSE DayPair(day_idx)[2]
        start == _parse_hhmm(Get(item, start_key, None))
        close == _parse_hhmm(Get(item, close_key, None))
    IN  IF start = None \/ close = None THEN <<"UNKNOWN", None>>
        ELSE IF start.n <= now_hhmm /\ now_hhmm <= close.n
             THEN <<"OPEN", _hhmm_to_display(Get(item, close_key, None))>>
             ELSE <<"CLOSED", None>>

\* mutant: a window whose close is before its start runs over midnight
is_open_overnight(item, now_hhmm, day_idx) ==
    LET start_key == DayPair(day_idx)[1]
        close_key == DayPair(day_idx)[2]
        start == _parse_hhmm(Get(item, start_key, None))
        close == _parse_hhmm(Get(item, close_key, None))
    IN  IF start = None \/ close = None THEN <<"UNKNOWN", None>>
        ELSE IF \/ start.n <= now_hhmm /\ now_hhmm <= close.n
                \/ close.n < start.n /\ (start.n <= now_hhmm \/ now_hhmm <= close.n)
             THEN <<"OPEN", _hhmm_to_display(Get(item, close_key, None))>>
             ELSE <<"CLOSED", None>>

\* open_status_pharmacy._is_open
_is_open(item, now_hhmm, day_idx) ==
    LET start_key == DayPair(day_idx)[1]
        close_key == DayPair(day_idx)[2]
        start == _parse_hhmm(Get(item, start_key, None))
        close == _parse_hhmm(Get(item, close_key, None))
    IN  IF start = None \/ close = None THEN <<"UNKNOWN", None>>
        ELSE IF start.n <= now_hhmm /\ now_hhmm <= close.n
             THEN <<"OPEN", _hhmm_to_display(Get(item, close_key, None))>>
             ELSE <<"CLOSED", None>>

\* open_status_pharmacy.get_open_status, the use_holiday branch
holiday_status(match, now_hhmm) ==
    LET start == _parse_hhmm(Get(match, HOLIDAY_FIELDS[1], None))
        close == _parse_hhmm(Get(match, HOLIDAY_FIELDS[2], None))
    IN  IF start = None \/ close = None THEN <<"UNKNOWN", None>>
        ELSE IF start.n <= now_hhmm /\ now_hhmm <= close.n
             THEN <<"OPEN", _hhmm_to_display(Get(match, HOLIDAY_FIELDS[2], None))>>
             ELSE <<"CLOSED", None>>

\* hospital._compute_open_status: weekday duty hours only
hospital_compute_open_status(item, now_hhmm, day_idx) ==
    LET start_key == DayPair(day_idx)[1]
        close_key == DayPair(day_idx)[2]
        start == _parse_hhmm(Get(item, start_key, None))
        close == _parse_hhmm(Get(item, close_key, None))
    IN  IF start = None \/ close = None THEN <<"UNKNOWN", None>>
        ELSE IF start.n <= now_hhmm /\ now_hhmm <= close.n
             THEN <<"OPEN", _hhmm_to_display(Get(item, close_key, None))>>
             ELSE <<"CLOSED", None>>

\* mutant: the 24-hour flag is consulted only when the window says nothing
emergency_status_window_first(item, now_hhmm, day_idx) ==
    LET start_key == DayPair(day_idx)[1]
        close_key == DayPair(day_idx)[2]
        start == _parse_hhmm(Get(item, start_key, None))
        close == _parse_hhmm(Get(item, close_key, None))
    IN  IF start = None \/ close = None
        THEN IF Get(item, "dutyEryn", None) = Str(<<"Y">>) THEN <<"OPEN", None>>
             ELSE <<"UNKNOWN", None>>
        ELSE IF start.n <= now_hhmm /\ now_hhmm <= close.n
             THEN <<"OPEN", _hhmm_to_display(Get(item, close_key, None))>>
             ELSE <<"CLOSED", None>>

\* emergency._compute_open_status: the 24-hour flag comes first
emergency_compute_open_status(item, now_hhmm, day_idx) ==
    IF Get(item, "dutyEryn", None) = Str(<<"Y">>) THEN <<"OPEN", None>>
    ELSE
    LET start_key == DayPair(day_idx)[1]
        close_key == DayPair(day_idx)[2]
        start == _parse_hhmm(Get(item, start_key, None))
        close == _parse_hhmm(Get(item, close_key, None))
    IN  IF start = None \/ close = None THEN <<"UNKNOWN", None>>
        ELSE IF start.n <= now_hhmm /\ now_hhmm <= close.n
             THEN <<"OPEN", _hhmm_to_display(Get(item, close_key, None))>>
             ELSE <<"CLOSED", None>>

(***************************************************************************)
(* The per-module cache and the upstream fetch                             *)
(***************************************************************************)
CACHE_TTL == 600

\* d[key] = value on a Python dict
Put(f, key, value) == [x \in DOMAIN f \cup {key} |-> IF x = key THEN value ELSE f[x]]

\* mutant: an entry is still served when exactly CACHE_TTL seconds old
cache_get_inclusive(c, ts, key) ==
    IF key \in DOMAIN c /\ (now - ts[key]) <= CACHE_TTL THEN c[key] ELSE None

\* _cache_get(key) on the maps (c, ts) at monotonic time now
_cache_get(c, ts, key) ==
    IF key \in DOMAIN c /\ (now - ts[key]) < CACHE_TTL THEN c[key] ELSE None

\* a put that leaves an entry that is already there
cache_set_if_absent(c, ts, key, value) ==
    IF key \in DOMAIN c THEN [c |-> c, ts |-> ts]
    ELSE [c |-> Put(c, key, value), ts |-> Put(ts, key, now)]

\* _cache_set(key, value)
_cache_set(c, ts, key, value) == [c |-> Put(c, key, value), ts |-> Put(ts, key, now)]

\* the cache key of a scope: pharmacy adds the Seoul weekday
cache_key(service, q0, q1, day_idx) ==
    IF service = "pharmacy" THEN <<Strip(q0), Strip(q1), day_idx>>
    ELSE <<Strip(q0), Strip(q1)>>

\* v.get(key, default) on a value that may not be a dict (AttributeError)
DictGet(v, key, default) ==
    IF v = RAISED \/ v.t # "dict" THEN RAISED ELSE Get(v.d, key, default)

\* data.get("response", {}).get("body", {}).get("items")
envelope_items(data) ==
    DictGet(DictGet(DictGet(data, "response", Dict(EmptyMap)), "body", Dict(EmptyMap)),
            "items", None)

\* (items or {}).get("item", []) if that is a dict, else []
envelope_item(items) ==
    IF items = RAISED THEN RAISED
    ELSE IF Truthy(items) /\ items.t = "dict" THEN Get(items.d, "item", List(<<>>))
    ELSE List(<<>>)

\* a single object is dropped like any other value that is no list
as_item_list_lists_only(item_data) ==
    IF item_data = RAISED THEN RAISED
    ELSE IF item_data.t # "list" THEN List(<<>>)
    ELSE item_data

\* a single object becomes a one-element list, anything but a list the empty list
as_item_list(item_data) ==
    IF item_data = RAISED THEN RAISED
    ELSE IF item_data.t = "dict" THEN List(<<item_data>>)
    ELSE IF item_data.t # "list" THEN List(<<>>)
    ELSE item_data

\* the envelope normalisation: response.body.items.item as a list
item_list(data) == as_item_list(envelope_item(envelope_items(data)))

\* what the upstream request of _fetch_list yields: RAISED (httpx error, non-2xx
\* status, invalid JSON, or a document that is no envelope) or the item list
upstream_items(resp) == IF resp.k = "error" THEN RAISED ELSE item_list(resp.data)

\* the return of a lookup that stored its list
stored_return(items, stored) ==
    [raised |-> FALSE, items |-> items, c |-> stored.c, ts |-> stored.ts, called |-> TRUE]

\* the upstream part of _fetch_list: nothing is stored when the request raises
fetch_upstream(c, ts, key, items) ==
    IF items = RAISED
    THEN [raised |-> TRUE, items |-> None, c |-> c, ts |-> ts, called |-> TRUE]
    ELSE stored_return(items, _cache_set(c, ts, key, items))

\* a map without the key
Drop(f, key) == [x \in DOMAIN f \ {key} |-> f[x]]

\* a lookup that deletes the entry it found expired before it goes upstream
fetch_after_lookup_evicting(c, ts, key, cached, resp) ==
    IF cached # None
    THEN [raised |-> FALSE, items |-> cached, c |-> c, ts |-> ts, called |-> FALSE]
    ELSE fetch_upstream(Drop(c, key), Drop(ts, key), key, upstream_items(resp))

\* _fetch_list once _cache_get has answered
fetch_after_lookup(c, ts, key, cached, resp) ==
    IF cached # None
    THEN [raised |-> FALSE, items |-> cached, c |-> c, ts |-> ts, called |-> FALSE]
    ELSE fetch_upstream(c, ts, key, upstream_items(resp))

\* mutant: the cache is not consulted, every lookup goes upstream
fetch_list_uncached(c, ts, key, resp) == fetch_upstream(c, ts, key, upstream_items(resp))

\* _fetch_list, from the cache key on; resp is what upstream answers if asked.
\* Yields whether it raised, the list it returns, the maps it leaves and whether
\* upstream was called.
_fetch_list(c, ts, key, resp) ==
    fetch_after_lookup(c, ts, key, _cache_get(c, ts, key), resp)

(***************************************************************************)
(* Pharmacy open status by name                                            *)
(***************************************************************************)
RECURSIVE KeepNameChars(_)
KeepNameChars(s) ==
    IF s = <<>> THEN <<>>
    ELSE IF Head(s) \in LetterChars \cup DigitChars
         THEN <<Head(s)>> \o KeepNameChars(Tail(s))
         ELSE KeepNameChars(Tail(s))

\* _normalize(name): only Hangul and ASCII alphanumerics are kept
_normalize(name) == KeepNameChars(name)

\* needle in hay, on strings
Contains(hay, needle) ==
    \E i \in 0..(Len(hay) - Len(needle)) : SubSeq(hay, i + 1, i + Len(needle)) = needle

\* next((item for item in items if <contains-match>), None): the first record,
\* in list order, whose normalised dutyName contains the query or is contained
\* in it.  RAISED when a record reached before any match is not a dict, or its
\* dutyName is not a string (re.sub raises TypeError).
RECURSIVE first_match(_, _)
first_match(items, norm_query) ==
    IF items = <<>> THEN None
    ELSE LET item == Head(items)
             duty_name == DictGet(item, "dutyName", Str(<<>>))
         IN  IF duty_name = RAISED \/ duty_name.t # "str" THEN RAISED
             ELSE IF Contains(_normalize(duty_name.s), norm_query)
                     \/ Contains(norm_query, _normalize(duty_name.s))
                  THEN item
                  ELSE first_match(Tail(items), norm_query)

\* the entry a lookup leaves in the call's log
fetch_log(key, f) ==
    [key |-> key, called |-> f.called, raised |-> f.raised, items |-> f.items]

\* the return of _fetch_list_with_fallback when the fallback lookup f2 was made
fallback_return(log1, k2, f2) ==
    [raised |-> f2.raised, items |-> f2.items, c |-> f2.c, ts |-> f2.ts,
     fetches |-> <<log1, fetch_log(k2, f2)>>]

\* the primary lookup alone, the fallback scope never tried
after_primary_no_fallback(f1, log1, q0, q1_fallback, day_idx, resp2) ==
    IF f1.raised
    THEN [raised |-> TRUE, items |-> None, c |-> f1.c, ts |-> f1.ts, fetches |-> <<log1>>]
    ELSE [raised |-> FALSE, items |-> f1.items, c |-> f1.c, ts |-> f1.ts,
          fetches |-> <<log1>>]

\* _fetch_list_with_fallback after the primary lookup f1
after_primary(f1, log1, q0, q1_fallback, day_idx, resp2) ==
    IF f1.raised
    THEN [raised |-> TRUE, items |-> None, c |-> f1.c, ts |-> f1.ts, fetches |-> <<log1>>]
    ELSE IF ~Truthy(f1.items) /\ Truthy(q1_fallback)
    THEN fallback_return(log1, cache_key("pharmacy", q0, q1_fallback.s, day_idx),
                         _fetch_list(f1.c, f1.ts,
                                     cache_key("pharmacy", q0, q1_fallback.s, day_idx),
                                     resp2))
    ELSE [raised |-> FALSE, items |-> f1.items, c |-> f1.c, ts |-> f1.ts,
          fetches |-> <<log1>>]

\* _fetch_list_with_fallback: the primary scope, then once the fallback scope
\* when the primary list is empty and a fallback is given
_fetch_list_with_fallback(c, ts, q0, q1, q1_fallback, day_idx, resp1, resp2) ==
    after_primary(_fetch_list(c, ts, cache_key("pharmacy", q0, q1, day_idx), resp1),
                  fetch_log(cache_key("pharmacy", q0, q1, day_idx),
                            _fetch_list(c, ts, cache_key("pharmacy", q0, q1, day_idx), resp1)),
                  q0, q1_fallback, day_idx, resp2)

\* the status of a matched record: the holiday pair or the weekday pair
matched_status(item, now_hhmm, day_idx, use_holiday) ==
    IF use_holiday THEN holiday_status(item, now_hhmm) ELSE _is_open(item, now_hhmm, day_idx)

\* the entry of a name whose record was found
matched_entry(name, st) ==
    [name |-> name, is_open |-> st[1], open_until |-> st[2], source |-> "data.go.kr"]

\* the entry of a name, from what the scan for its record gave
entry_of_match(match, name, now_hhmm, day_idx, use_holiday) ==
    IF match = RAISED THEN RAISED
    ELSE IF match = None
    THEN [name |-> name, is_open |-> "UNKNOWN", open_until |-> None, source |-> "no_match"]
    ELSE matched_entry(name, matched_status(match.d, now_hhmm, day_idx, use_holiday))

\* the result entry of one requested name
open_status_entry(items, name, now_hhmm, day_idx, use_holiday) ==
    entry_of_match(first_match(items, _normalize(name)), name, now_hhmm, day_idx,
                   use_holiday)

\* a loop that builds one entry per element: an exception in any pass leaves it
loop_result(entries) ==
    IF \E i \in 1..Len(entries) : entries[i] = RAISED THEN RAISED ELSE List(entries)

\* mutant: get_open_status without its exception handler around the fetch
get_open_status_unguarded(fetched, names, now_hhmm, day_idx, use_holiday) ==
    IF fetched.raised THEN RAISED
    ELSE loop_result([i \in 1..Len(names) |->
                        open_status_entry(fetched.items.l, names[i], now_hhmm,
                                          day_idx, use_holiday)])

\* get_open_status after the fetch: RAISED or the list of entries, one per name
get_open_status(fetched, names, now_hhmm, day_idx, use_holiday) ==
    IF fetched.raised
    THEN List([i \in 1..Len(names) |->
                [name |-> names[i], is_open |-> "UNKNOWN", open_until |-> None,
                 source |-> "api_error"]])
    ELSE loop_result([i \in 1..Len(names) |->
                        open_status_entry(fetched.items.l, names[i], now_hhmm,
                                          day_idx, use_holiday)])

(***************************************************************************)
(* Nearby hospitals and emergency institutions                             *)
(*                                                                         *)
(* Distances are integers in units of 0.0001 km, so that round(d, 3) does  *)
(* something.  A coordinate is the arc length, in the same unit, from the   *)
(* equator (latitude) or the prime meridian (longitude).  Along one        *)
(* meridian the haversine distance is the difference of the latitudes;     *)
(* the only place of the sample data off the caller's meridian lies on the *)
(* prime meridian, a quarter of the globe away from Korea.                 *)
(***************************************************************************)
Abs(x) == IF x < 0 THEN -x ELSE x

_haversine(lat1, lng1, lat2, lng2) ==
    IF lng1 = lng2 THEN Abs(lat2 - lat1) ELSE 80000000 + Abs(lat2 - lat1)

\* round(distance_km, 3)
Round3(d) ==
    LET r == d % 10
    IN  IF r < 5 THEN d - r
        ELSE IF r > 5 THEN d - r + 10
        ELSE IF ((d - r) \div 10) % 2 = 0 THEN d - r ELSE d - r + 10

\* float(v or 0): <<TRUE, value>>, or <<FALSE, 0>> on TypeError / ValueError
PyFloatOr0(v) ==
    IF ~Truthy(v) THEN <<TRUE, 0>>
    ELSE CASE v.t = "float" -> <<TRUE, v.n>>
           [] v.t = "int"   -> <<TRUE, v.n>>
           [] v.t = "str"   -> IF IsDigitStr(Strip(v.s)) THEN <<TRUE, PyInt(Strip(v.s))>>
                               ELSE <<FALSE, 0>>
           [] OTHER         -> <<FALSE, 0>>

\* (item.get(key) or default).strip(): RAISED on a truthy value that is no string
StripOr(item, key, default) ==
    LET v == Get(item, key, None)
    IN  IF ~Truthy(v) THEN Str(Strip(default))
        ELSE IF v.t # "str" THEN RAISED
        ELSE Str(Strip(v.s))

\* x or None
OrNone(v) == IF v = RAISED THEN RAISED ELSE IF Truthy(v) THEN v ELSE None

\* Hangul labels, one character per syllable
UIWON == <<"ui", "won">>
BYEONGWON == <<"byeong", "won">>
EMERGENCY_LABEL == <<"eung", "geup", "ui", "ryo", "gi", "gwan">>

_DIV_TO_CATEGORY(duty_div_name) ==
    CASE duty_div_name = UIWON -> "clinic"
      [] duty_div_name = BYEONGWON -> "hospital"
      [] duty_div_name = <<"jong", "hap">> \o BYEONGWON -> "hospital"
      [] duty_div_name = <<"sang", "geup", "jong", "hap">> \o BYEONGWON -> "hospital"
      [] duty_div_name = <<"yo", "yang">> \o BYEONGWON -> "hospital"
      [] duty_div_name = <<"chi", "gwa">> \o BYEONGWON -> "clinic"
      [] duty_div_name = <<"han", "bang">> \o BYEONGWON -> "hospital"
      [] duty_div_name = <<"chi", "gwa">> \o UIWON -> "clinic"
      [] duty_div_name = <<"han">> \o UIWON -> "clinic"
      [] OTHER -> "hospital"

\* the coordinates of a record: (0, 0) when either fails to parse
place_coords(item) ==
    LET la == PyFloatOr0(Get(item, "wgs84Lat", None))
        lo == PyFloatOr0(Get(item, "wgs84Lon", None))
    IN  IF la[1] /\ lo[1] THEN <<la[2], lo[2]>> ELSE <<0, 0>>

\* has_coords
has_coords(coords) == coords[1] # 0 \/ coords[2] # 0

\* distance_km of a record: the radius itself when it has no coordinates
place_distance(coords, lat, lng, radius_km) ==
    IF has_coords(coords) THEN _haversine(lat, lng, coords[1], coords[2]) ELSE radius_km

\* the Place built from the parts of a record: RAISED when building one raised
place_of(service, coords, distance_km, duty_div_name, status, name, address, phone, institution_type, notes) ==
    IF service = "hospital" /\ duty_div_name = RAISED THEN RAISED
    ELSE IF name = RAISED \/ address = RAISED \/ phone = RAISED THEN RAISED
    ELSE IF service = "emergency" /\ (institution_type = RAISED \/ notes = RAISED)
    THEN RAISED
    ELSE IF service = "hospital"
    THEN [k |-> "place",
          name |-> name, address |-> address, phone |-> phone,
          lat |-> IF has_coords(coords) THEN Flt(coords[1]) ELSE None,
          lng |-> IF has_coords(coords) THEN Flt(coords[2]) ELSE None,
          distance_km |-> Round3(distance_km),
          category |-> _DIV_TO_CATEGORY(duty_div_name.s),
          duty_div_name |-> duty_div_name,
          open_status |-> status[1], open_until |-> status[2],
          source |-> "data.go.kr"]
    ELSE [k |-> "place",
          name |-> name, address |-> address, phone |-> phone,
          lat |-> IF has_coords(coords) THEN Flt(coords[1]) ELSE None,
          lng |-> IF has_coords(coords) THEN Flt(coords[2]) ELSE None,
          distance_km |-> Round3(distance_km),
          institution_type |-> institution_type,
          notes |-> notes,
          open_status |-> status[1], open_until |-> status[2],
          source |-> "data.go.kr"]

\* the loop body from the distance on: continue beyond the radius
place_within(service, d, coords, distance_km, radius_km, now_hhmm, day_idx) ==
    IF has_coords(coords) /\ distance_km > radius_km THEN [k |-> "skip"]
    ELSE place_of(service, coords, distance_km,
                  StripOr(d, "dutyDivNam", <<>>),
                  IF service = "hospital"
                  THEN hospital_compute_open_status(d, now_hhmm, day_idx)
                  ELSE emergency_compute_open_status(d, now_hhmm, day_idx),
                  StripOr(d, "dutyName", <<>>),
                  StripOr(d, "dutyAddr", <<>>),
                  OrNone(StripOr(d, "dutyTel1", <<>>)),
                  StripOr(d, "dutyEmclsName", EMERGENCY_LABEL),
                  OrNone(StripOr(d, "dutyInf", <<>>)))

\* one pass of the loop body of fetch_nearby_hospitals / fetch_nearby_emergency:
\* RAISED, [k |-> "skip"] (continue) or the place appended
nearby_entry(service, item, lat, lng, radius_km, now_hhmm, day_idx) ==
    IF item.t # "dict" THEN RAISED
    ELSE place_within(service, item.d, place_coords(item.d),
                      place_distance(place_coords(item.d), lat, lng, radius_km),
                      radius_km, now_hhmm, day_idx)

\* results.sort(key=distance_km): stable insertion of x into a sorted list
RECURSIVE InsertByDistance(_, _)
InsertByDistance(sorted, x) ==
    IF sorted = <<>> THEN <<x>>
    ELSE IF sorted[Len(sorted)].distance_km <= x.distance_km THEN Append(sorted, x)
    ELSE Append(InsertByDistance(SubSeq(sorted, 1, Len(sorted) - 1), x), sorted[Len(sorted)])

RECURSIVE SortByDistance(_)
SortByDistance(l) ==
    IF l = <<>> THEN <<>>
    ELSE InsertByDistance(SortByDistance(SubSeq(l, 1, Len(l) - 1)), l[Len(l)])

\* results[:limit], limit >= 0
Prefix(l, limit) == SubSeq(l, 1, IF limit < Len(l) THEN limit ELSE Len(l))

RECURSIVE KeepPlaces(_)
KeepPlaces(entries) ==
    IF entries = <<>> THEN <<>>
    ELSE IF Head(entries).k = "place" THEN <<Head(entries)>> \o KeepPlaces(Tail(entries))
    ELSE KeepPlaces(Tail(entries))

\* the cut made before the sort
nearby_result_cut_first(entries, limit) ==
    IF entries = RAISED THEN RAISED
    ELSE List(SortByDistance(Prefix(KeepPlaces(entries.l), limit)))

\* the places of the loop, sorted and cut: RAISED when a pass raised
nearby_result(entries, limit) ==
    IF entries = RAISED THEN RAISED
    ELSE List(Prefix(SortByDistance(KeepPlaces(entries.l)), limit))

\* fetch_nearby_hospitals / fetch_nearby_emergency after the fetch: RAISED or
\* the places within radius_km, nearest first, at most limit
fetch_nearby(service, fetched, lat, lng, radius_km, limit, now_hhmm, day_idx) ==
    IF fetched.raised THEN List(<<>>)
    ELSE nearby_result(loop_result([i \in 1..Len(fetched.items.l) |->
                                      nearby_entry(service, fetched.items.l[i], lat, lng,
                                                   radius_km, now_hhmm, day_idx)]),
                       limit)

(***************************************************************************)
(* The service: sample data, the clock and the handlers                    *)
(***************************************************************************)
MaxClock == 600

TickSteps == {599, 600}

Services == {"pharmacy", "hospital", "emergency"}

Q0 == <<"s">>

\* district arguments: the same district with and without trailing blank, and
\* the empty district (province-wide)
Q1s == {<<"a">>, <<"a", " ">>, <<>>}

\* q1_fallback
Fallbacks == {None, Str(<<>>), Str(<<"b">>)}

\* Seoul wall clock at the call: <<HHMM, weekday>>
WallClocks == {<<1430, 0>>, <<2130, 5>>}

Origin == <<3750000, 1270000>>

\* radius_km: none, 1.2006 km, 5 km
Radii == {0, 12006, 50000}

Limits == {0, 1, 2, 20}

Hours(d, start, close) == DAY_FIELDS[d][1] :> start @@ DAY_FIELDS[d][2] :> close

\* pharmacy records, after tests/test_pharmacy_open.py::_mock_fetch
PharmA ==
    Dict([dutyName |-> Str(<<"a", "b">>)]
         @@ Hours(0, S("0", "9", "0", "0"), S("2", "1", "0", "0"))
         @@ Hours(5, S("0", "9", "0", "0"), S("1", "4", "0", "0"))
         @@ Hours(6, None, None))
PharmB ==
    Dict([dutyName |-> Str(<<"c", "d">>),
          dutyTime8s |-> S("1", "0", "0", "0"), dutyTime8c |-> S("1", "6", "0", "0")]
         @@ Hours(0, S("0", "8", "0", "0"), S("2", "2", "0", "0"))
         @@ Hours(5, S("0", "9", "0", "0"), S("1", "8", "0", "0")))
\* a record whose dutyName is null
PharmNull == Dict([dutyName |-> None] @@ Hours(0, S("0", "9", "0", "0"), S("2", "1", "0", "0")))

\* requested names: "a b", "c-d" match PharmA, PharmB once normalised; "e"
\* matches nothing; "abcd" contains the names of both
NameLists ==
    { <<>>,
      <<<<"a", " ", "b">>, <<"c", "-", "d">>, <<"e">>>>,
      <<<<"e">>, <<"a", "b", "c", "d">>>> }

Envelope(items) == Dict([response |-> Dict([body |-> Dict([items |-> items])])])

\* what upstream answers: the call raises (network, timeout, non-2xx status,
\* invalid JSON), or a JSON document
PharmacyResponses ==
    { [k |-> "error"],
      [k |-> "json", data |-> Dict([response |-> Str(<<"x">>)])],
      [k |-> "json", data |-> Envelope(Str(<<>>))],
      [k |-> "json", data |-> Envelope(Dict([item |-> List(<<PharmA, PharmB>>)]))],
      [k |-> "json", data |-> Envelope(Dict([item |-> List(<<PharmA, PharmNull, PharmB>>)]))] }

\* what upstream answers for the fallback district
FallbackResponses ==
    { [k |-> "error"],
      [k |-> "json", data |-> Envelope(None)],
      [k |-> "json", data |-> Envelope(Dict([item |-> PharmB]))] }

PharmacyQ1s == {<<"a">>, <<"a", " ">>}

Place(name, lat, lng) == [dutyName |-> name, wgs84Lat |-> lat, wgs84Lon |-> lng]

\* 1.2006 km north of the caller, open on Monday afternoon
Near ==
    Dict(Place(Str(<<"a", "b">>), Flt(Origin[1] + 12006), Flt(Origin[2]))
         @@ [dutyDivNam |-> Str(UIWON), dutyTel1 |-> Str(<<"0", "2">>)]
         @@ Hours(0, S("0", "9", "0", "0"), S("2", "1", "0", "0")))
\* at exactly 5 km, no duty hours; a designated 24-hour facility
AtRadius ==
    Dict(Place(Str(<<" ", "c", "d">>), Flt(Origin[1] - 50000), Flt(Origin[2]))
         @@ [dutyEryn |-> Str(<<"Y">>)])
\* just beyond 5 km, and its name is a number
Beyond == Dict(Place(Num(365), Flt(Origin[1] + 50004), Flt(Origin[2])))
\* no coordinates
NoCoords == Dict(Place(Str(<<"e">>), ABSENT, Str(<<>>)))
\* within reach, and its name is a number
NumberName == Dict(Place(Num(365), Flt(Origin[1] + 300), Flt(Origin[2])))

NearbyResponses ==
    { [k |-> "error"],
      [k |-> "json", data |-> List(<<>>)],
      [k |-> "json", data |-> Envelope(ABSENT)],
      [k |-> "json", data |-> Envelope(Dict([item |-> List(<<NoCoords, AtRadius, Near, Beyond>>)]))],
      [k |-> "json", data |-> Envelope(Dict([item |-> Near]))],
      [k |-> "json", data |-> Envelope(Dict([item |-> List(<<Near, NumberName>>)]))],
      [k |-> "json", data |-> Envelope(Dict([item |-> List(<<Str(<<"x">>)>>)]))] }

\* the history of stores: a fetch that called upstream and returned stored its list
RECURSIVE HistAfter(_, _)
HistAfter(h, fetches) ==
    IF fetches = <<>> THEN h
    ELSE LET f == Head(fetches)
         IN  HistAfter(IF f.called /\ ~f.raised
                       THEN Put(h, f.key, [at |-> now, items |-> f.items]) ELSE h,
                       Tail(fetches))

EvIdle == [done |-> TRUE]

Init ==
    /\ svc \in Services
    /\ now = 0
    /\ cache = EmptyMap /\ cache_ts = EmptyMap
    /\ last = Idle /\ hist = EmptyMap /\ hashseed = 0
    /\ ev = EvIdle

\* the monotonic clock advances between calls
Tick ==
    /\ last = Idle
    /\ \E d \in TickSteps :
        /\ now + d <= MaxClock
        /\ now' = now + d
    /\ UNCHANGED <<svc, cache, cache_ts, last, hist, ev, hashseed>>

\* what a call leaves: the cache maps after its lookups, the stores noted in
\* hist, and what the caller observed in last
Returns(c, ts, fetches, observed) ==
    /\ cache' = c
    /\ cache_ts' = ts
    /\ hist' = HistAfter(hist, fetches)
    /\ last' = observed

\* what the caller sees of a handler's return
Outcome(res) == [raised |-> (res = RAISED), result |-> IF res = RAISED THEN <<>> ELSE res.l]

PharmacyReturns(f, q1_fallback, names, wall, use_holiday, outcome) ==
    Returns(f.c, f.ts, f.fetches,
            [op |-> "get_open_status", at |-> now, q1_fallback |-> q1_fallback, names |-> names,
             now_hhmm |-> wall[1], day_idx |-> wall[2], use_holiday |-> use_holiday,
             fetches |-> f.fetches, raised |-> outcome.raised, result |-> outcome.result])

PharmacyCall(f, q1_fallback, names, wall, use_holiday) ==
    PharmacyReturns(f, q1_fallback, names, wall, use_holiday,
                    Outcome(get_open_status(f, names, wall[1], wall[2], use_holiday)))

\* a call of open_status_pharmacy.get_open_status; resp1 and resp2 are what
\* upstream answers to the first and the second request of the call, if made
GetOpenStatus ==
    /\ svc = "pharmacy"
    /\ last = Idle
    /\ \E q1 \in PharmacyQ1s, q1_fallback \in Fallbacks, names \in NameLists,
          wall \in WallClocks, use_holiday \in BOOLEAN,
          resp1 \in PharmacyResponses, resp2 \in FallbackResponses :
          PharmacyCall(_fetch_list_with_fallback(cache, cache_ts, Q0, q1, q1_fallback,
                                                 wall[2], resp1, resp2),
                       q1_fallback, names, wall, use_holiday)
    /\ UNCHANGED <<svc, now, ev, hashseed>>

NearbyReturns(f, fetches, radius_km, limit, wall, outcome) ==
    Returns(f.c, f.ts, fetches,
            [op |-> "fetch_nearby", at |-> now, radius_km |-> radius_km, limit |-> limit,
             now_hhmm |-> wall[1], day_idx |-> wall[2], fetches |-> fetches,
             raised |-> outcome.raised, result |-> outcome.result])

NearbyCall(service, key, f, radius_km, limit, wall) ==
    NearbyReturns(f, <<fetch_log(key, f)>>, radius_km, limit, wall,
                  Outcome(fetch_nearby(service, f, Origin[1], Origin[2], radius_km, limit,
                                       wall[1], wall[2])))

\* a call of hospital.fetch_nearby_hospitals or emergency.fetch_nearby_emergency
FetchNearby(service) ==
    /\ svc = service
    /\ last = Idle
    /\ \E q1 \in Q1s, radius_km \in Radii, limit \in Limits, wall \in WallClocks,
          resp \in NearbyResponses :
          NearbyCall(service, cache_key(service, Q0, q1, wall[2]),
                     _fetch_list(cache, cache_ts, cache_key(service, Q0, q1, wall[2]), resp),
                     radius_km, limit, wall)
    /\ UNCHANGED <<svc, now, ev, hashseed>>

FetchNearbyHospitals == FetchNearby("hospital")

FetchNearbyEmergency == FetchNearby("emergency")

\* the caller has its answer; the module is ready for the next call
Reply ==
    /\ last # Idle
    /\ last' = Idle
    /\ UNCHANGED <<svc, now, cache, cache_ts, hist, ev, hashseed>>

Next == Tick \/ GetOpenStatus \/ FetchNearbyHospitals \/ FetchNearbyEmergency \/ Reply

Spec == Init /\ [][Next]_vars

(***************************************************************************)
(* The evaluators on their own: inputs drawn at Init, Evaluate applies the *)
(* evaluator the input names.                                              *)
(***************************************************************************)
\* raw duty-hour values: Optional[str], as _parse_hhmm declares its parameter
RawTimes ==
    { ABSENT, None, Str(<<>>), Str(<<" ", " ">>), Str(<<"a", "b", "c">>),
      Str(<<"0", "9", ":", "0", "0">>), Str(<<" ", "0", "9", "0", "0">>),
      Str(<<"9", "0", "0">>), S("0", "9", "0", "0"), S("2", "1", "0", "0"),
      S("0", "0", "0", "0"), S("2", "3", "5", "9") }

Nows == {0, 859, 900, 901, 1430, 2100, 2101, 2359}

Days == 0..6

EvalKinds == {"pharmacy", "pharmacy_holiday", "hospital", "emergency"}

Flags == {ABSENT, Str(<<"Y">>), Str(<<"N">>)}

\* the hours of the pairs the evaluation does not select
OtherHours == {<<ABSENT, ABSENT>>, <<S("0", "0", "0", "0"), S("2", "3", "5", "9")>>}

TimeFields ==
    {DAY_FIELDS[d][i] : d \in 0..6, i \in 1..2} \cup {HOLIDAY_FIELDS[1], HOLIDAY_FIELDS[2]}

\* the (start, close) field pair an evaluation of this kind selects
SelectedPair(kind, day_idx) == IF kind = "pharmacy_holiday" THEN HOLIDAY_FIELDS ELSE DayPair(day_idx)

\* a record whose selected pair is (s, c), every other pair other, and flag the 24-hour flag
MkItem(pair, s, c, other, flag) ==
    [k \in TimeFields \cup {"dutyEryn"} |->
        CASE k = pair[1]    -> s
          [] k = pair[2]    -> c
          [] k = "dutyEryn" -> flag
          [] OTHER          -> IF k \in {DAY_FIELDS[d][1] : d \in 0..6} \cup {HOLIDAY_FIELDS[1]}
                               THEN other[1] ELSE other[2]]

InitStatus ==
    /\ svc = "none" /\ now = 0 /\ cache = EmptyMap /\ cache_ts = EmptyMap
    /\ last = Idle /\ hist = EmptyMap /\ hashseed = 0
    /\ \E kind \in EvalKinds, day_idx \in Days, s \in RawTimes, c \in RawTimes,
          n \in Nows, other \in OtherHours, flag \in Flags :
          /\ (kind # "emergency" => flag = ABSENT)
          /\ ev = [kind |-> kind, day_idx |-> day_idx, now_hhmm |-> n, done |-> FALSE,
                   item |-> MkItem(SelectedPair(kind, day_idx), s, c, other, flag),
                   out |-> <<"UNKNOWN", None>>]

\* the evaluator of each kind
evaluate(kind, item, now_hhmm, day_idx) ==
    CASE kind = "pharmacy" -> _is_open(item, now_hhmm, day_idx)
      [] kind = "pharmacy_holiday" -> holiday_status(item, now_hhmm)
      [] kind = "hospital" -> hospital_compute_open_status(item, now_hhmm, day_idx)
      [] kind = "emergency" -> emergency_compute_open_status(item, now_hhmm, day_idx)

Evaluate ==
    /\ ~ev.done
    /\ ev' = [ev EXCEPT !.done = TRUE,
                        !.out = evaluate(ev.kind, ev.item, ev.now_hhmm, ev.day_idx)]
    /\ UNCHANGED <<svc, now, cache, cache_ts, last, hist, hashseed>>

NextStatus == Evaluate

SpecStatus == InitStatus /\ [][NextStatus]_vars

(***************************************************************************)
(* Triage of a transcript (voice_turn.classify_triage).  A Hangul syllable *)
(* is one character, written by its romanisation.                          *)
(***************************************************************************)
UpperChars == {"K", "M"}

\* str.lower() on one character: only cased letters change
LowerChar(ch) ==
    CASE ch = "K" -> "k"
      [] ch = "M" -> "m"
      [] OTHER -> ch

\* str.lower()
Lower(s) == [i \in 1..Len(s) |-> LowerChar(s[i])]

red_keywords ==
    << <<"ui", "sik">>, <<"sil", "sin">>, <<"gyeong", "ryeon">>, <<"ma", "bi">>,
       <<"sim", "han", " ", "chul", "hyeol">>, <<"pi", "reul", " ", "manh", "i">>,
       <<"ho", "heup", "gon", "ran">>, <<"sum", "i", " ", "an">>,
       <<"ga", "seum", " ", "tong", "jeung">>, <<"ap", "bak">>, <<"1", "1", "9">>,
       <<"eung", "geup">> >>

amber_keywords ==
    << <<"yeol">>, <<"go", "yeol">>, <<"tong", "jeung">>, <<"eo", "ji", "reo", "um">>,
       <<"bok", "tong">>, <<"gu", "to">>, <<"seol", "sa">>, <<"gi", "chim">>,
       <<"mom", "sal">>, <<"yeom", "jeung">>, <<"but", "gi">> >>

\* any(k in s for k in keywords)
AnyIn(keywords, s) == \E i \in DOMAIN keywords : Contains(s, keywords[i])

\* mutant: the AMBER keywords are tried first
classify_triage_amber_first(text) ==
    IF AnyIn(amber_keywords, Lower(text)) THEN "AMBER"
    ELSE IF AnyIn(red_keywords, Lower(text)) THEN "RED"
    ELSE "GREEN"

classify_triage(text) ==
    IF AnyIn(red_keywords, Lower(text)) THEN "RED"
    ELSE IF AnyIn(amber_keywords, Lower(text)) THEN "AMBER"
    ELSE "GREEN"

MaxTextLen == 5

TextChars == {"ga", "seum", " ", "tong", "jeung", "yeol", "1", "9", "K"}

\* the texts of at most n characters
RECURSIVE Texts(_)
Texts(n) ==
    IF n = 0 THEN {<<>>}
    ELSE Texts(n - 1) \cup {Append(t, ch) : t \in {u \in Texts(n - 1) : Len(u) = n - 1},
                                           ch \in TextChars}

InitTriage ==
    /\ svc = "none" /\ now = 0 /\ cache = EmptyMap /\ cache_ts = EmptyMap
    /\ last = Idle /\ hist = EmptyMap /\ hashseed = 0
    /\ \E text \in Texts(MaxTextLen) : ev = [text |-> text, done |-> FALSE, level |-> "NONE"]

Classify ==
    /\ ~ev.done
    /\ ev' = [ev EXCEPT !.done = TRUE, !.level = classify_triage(ev.text)]
    /\ UNCHANGED <<svc, now, cache, cache_ts, last, hist, hashseed>>

NextTriage == Classify

SpecTriage == InitTriage /\ [][NextTriage]_vars

(***************************************************************************)
(* The fetch step on its own: one lookup of an uncached scope, upstream    *)
(* answering with an envelope whose "items" field has the shape drawn at   *)
(* Init.                                                                   *)
(***************************************************************************)
MaxItems == 2

\* what a record list can hold: records, and a value that is no object
EnvelopeRecords == {PharmA, PharmB, Near, NoCoords, Str(<<"x">>)}

RecordLists == UNION {[1..n -> EnvelopeRecords] : n \in 0..MaxItems}

\* items["item"]: not there, null, empty, a number, a single object, a list
ItemMembers ==
    {ABSENT, None, Str(<<>>), Num(0)}
    \cup {r \in EnvelopeRecords : r.t = "dict"}
    \cup {List(l) : l \in RecordLists}

\* body["items"]: not there, null, "", a string, {}, a bare record, a bare
\* list, or an object with an "item" member
ItemsShapes ==
    {ABSENT, None, Str(<<>>), Str(<<"x">>), Dict(EmptyMap), PharmB}
    \cup {List(l) : l \in RecordLists}
    \cup {Dict([item |-> m]) : m \in ItemMembers}

InitEnvelope ==
    /\ svc \in Services /\ now = 0 /\ cache = EmptyMap /\ cache_ts = EmptyMap
    /\ last = Idle /\ hist = EmptyMap /\ hashseed = 0
    /\ \E items \in ItemsShapes : ev = [items |-> items, done |-> FALSE, out |-> None]

\* the lookup's return and the maps it leaves
Fetched(f) ==
    /\ ev' = [ev EXCEPT !.done = TRUE, !.out = IF f.raised THEN RAISED ELSE f.items]
    /\ cache' = f.c
    /\ cache_ts' = f.ts

\* a call of _fetch_list on a scope that is not cached
FetchList ==
    /\ ~ev.done
    /\ Fetched(_fetch_list(cache, cache_ts, cache_key(svc, Q0, <<"a">>, 0),
                           [k |-> "json", data |-> Envelope(ev.items)]))
    /\ UNCHANGED <<svc, now, last, hist, hashseed>>

NextEnvelope == FetchList

SpecEnvelope == InitEnvelope /\ [][NextEnvelope]_vars

(***************************************************************************)
(* Two concurrent lookups of one scope.  _fetch_list runs on the event     *)
(* loop: the code up to `await client.get` is one step, the code after the *)
(* response (raise_for_status, json, normalisation, _cache_set, return) is *)
(* another; the other lookup and the clock can move in between.            *)
(***************************************************************************)
Lookups == {1, 2}

MaxRaceClock == 2

RaceKey == cache_key("hospital", Q0, <<"a">>, 0)

\* what upstream answers to one request
RaceResponses ==
    { [k |-> "error"],
      [k |-> "json", data |-> Envelope(Str(<<>>))],
      [k |-> "json", data |-> Envelope(Dict([item |-> Near]))],
      [k |-> "json", data |-> Envelope(Dict([item |-> List(<<Near, NoCoords>>)]))] }

InitRace ==
    /\ svc = "hospital" /\ now = 0 /\ cache = EmptyMap /\ cache_ts = EmptyMap
    /\ last = Idle /\ hist = EmptyMap /\ hashseed = 0
    /\ ev = [pc |-> [p \in Lookups |-> "start"], out |-> [p \in Lookups |-> None],
             missed |-> [p \in Lookups |-> FALSE], writes |-> <<>>]

\* time.monotonic() advances
TickRace ==
    /\ now < MaxRaceClock
    /\ now' = now + 1
    /\ UNCHANGED <<svc, cache, cache_ts, last, hist, ev, hashseed>>

\* _fetch_list up to the request: a hit returns, a miss awaits upstream
Looked(p, cached) ==
    ev' = [ev EXCEPT !.pc[p] = IF cached # None THEN "done" ELSE "awaiting",
                     !.out[p] = cached,
                     !.missed[p] = (cached = None)]

LookUp(p) ==
    /\ ev.pc[p] = "start"
    /\ Looked(p, _cache_get(cache, cache_ts, RaceKey))
    /\ UNCHANGED <<svc, now, cache, cache_ts, last, hist, hashseed>>

\* _fetch_list from the response on: f is what the upstream part yields
Responded(p, f) ==
    /\ ev' = [ev EXCEPT !.pc[p] = "done",
                        !.out[p] = IF f.raised THEN RAISED ELSE f.items,
                        !.writes = IF f.raised THEN @
                                   ELSE Append(@, [by |-> p, items |-> f.items, at |-> now])]
    /\ cache' = f.c
    /\ cache_ts' = f.ts

Respond(p) ==
    /\ ev.pc[p] = "awaiting"
    /\ \E resp \in RaceResponses :
          Responded(p, fetch_upstream(cache, cache_ts, RaceKey, upstream_items(resp)))
    /\ UNCHANGED <<svc, now, last, hist, hashseed>>

NextRace == TickRace \/ (\E p \in Lookups : LookUp(p)) \/ (\E p \in Lookups : Respond(p))

SpecRace == InitRace /\ [][NextRace]_vars

(***************************************************************************)
(* The name match of get_open_status on record lists with empty, missing   *)
(* and null names.                                                         *)
(***************************************************************************)
MaxRecords == 2

\* a record without the dutyName key, and one whose name is punctuation only
PharmNoName == Dict(Hours(0, S("0", "9", "0", "0"), S("2", "1", "0", "0")))

PharmPunct ==
    Dict([dutyName |-> Str(<<"-">>)] @@ Hours(0, S("0", "8", "0", "0"), S("1", "2", "0", "0")))

MatchRecords == {PharmA, PharmB, PharmNoName, PharmPunct, PharmNull}

MatchResponses ==
    { [k |-> "json", data |-> Envelope(Dict([item |-> List(l)]))] :
         l \in UNION {[1..n -> MatchRecords] : n \in 0..MaxRecords} }

\* requested names: the empty name, a name of punctuation only, "e" that is
\* in no record name, "c d"
MatchNameLists ==
    { <<<<>>>>,
      <<<<"-">>, <<"e">>>>,
      <<<<"e">>, <<"c", " ", "d">>>> }

\* Seoul wall clock of the calls: Monday 14:30
MatchWall == <<1430, 0>>

InitMatch == Init /\ svc = "pharmacy"

\* a call of get_open_status without a fallback scope
MatchNames ==
    /\ last = Idle
    /\ \E q1 \in PharmacyQ1s, names \in MatchNameLists, use_holiday \in BOOLEAN,
          resp \in MatchResponses :
          PharmacyCall(_fetch_list_with_fallback(cache, cache_ts, Q0, q1, None,
                                                 MatchWall[2], resp, resp),
                       None, names, MatchWall, use_holiday)
    /\ UNCHANGED <<svc, now, ev, hashseed>>

NextMatch == MatchNames \/ Reply

SpecMatch == InitMatch /\ [][NextMatch]_vars

(***************************************************************************)
(* Lookups of one scope in sequence: what upstream answers decides whether *)
(* the cache is written.                                                   *)
(***************************************************************************)
MaxFetches == 2

FetchKey == cache_key(svc, Q0, <<"a">>, 0)

\* what upstream answers: the request raises (network, timeout, non-2xx
\* status, a body that is no JSON), or a 2xx answer with a JSON document: an
\* array, a document whose "response" is null, one whose "body" is a string,
\* envelopes without items, with empty items, with items of an unexpected
\* shape, and with records
FetchResponses ==
    { [k |-> "error"],
      [k |-> "json", data |-> List(<<>>)],
      [k |-> "json", data |-> Dict([response |-> None])],
      [k |-> "json", data |-> Dict([response |-> Dict([body |-> Str(<<"x">>)])])],
      [k |-> "json", data |-> Dict(EmptyMap)],
      [k |-> "json", data |-> Envelope(Str(<<>>))],
      [k |-> "json", data |-> Envelope(List(<<Near>>))],
      [k |-> "json", data |-> Envelope(Dict([item |-> Near]))],
      [k |-> "json", data |-> Envelope(Dict([item |-> List(<<Near, NoCoords>>)]))] }

InitFetch ==
    /\ svc \in Services /\ now = 0 /\ cache = EmptyMap /\ cache_ts = EmptyMap
    /\ last = Idle /\ hist = EmptyMap /\ hashseed = 0
    /\ ev = [calls |-> <<>>]

\* the lookup's return, the maps it leaves and the note of the call
FetchReturned(resp, f) ==
    /\ cache' = f.c
    /\ cache_ts' = f.ts
    /\ ev' = [calls |-> Append(ev.calls,
                  [at |-> now, resp |-> resp, called |-> f.called, raised |-> f.raised,
                   items |-> f.items,
                   wrote |-> (f.c # cache \/ f.ts # cache_ts)])]

\* a call of _fetch_list on the scope
FetchScope ==
    /\ Len(ev.calls) < MaxFetches
    /\ \E resp \in FetchResponses :
          FetchReturned(resp, _fetch_list(cache, cache_ts, FetchKey, resp))
    /\ UNCHANGED <<svc, now, last, hist, hashseed>>

NextFetch == Tick \/ FetchScope

SpecFetch == InitFetch /\ [][NextFetch]_vars

(***************************************************************************)
(* The voice turn (voice_turn.py).  Scores are in millionths, distances in *)
(* 0.0001 km as above.                                                     *)
(***************************************************************************)
SEOUL == <<"seo", "ul", "teuk", "byeol", "si">>
JONGNO == <<"jong", "no", "gu">>

\* (q or "").strip() or default
region_or(q, default) ==
    IF ~Truthy(q) THEN default
    ELSE IF Strip(q.s) = <<>> THEN default ELSE Strip(q.s)

_normalize_region(q0, q1) == <<region_or(q0, SEOUL), region_or(q1, JONGNO)>>

\* _reason_for(idx, open_status), idx from 0
_reason_for(idx, open_status) ==
    IF idx = 0 THEN "jeungsang jeokhap"
    ELSE IF open_status = "OPEN" THEN "yeongeop jung"
    ELSE "gakkaum"

Min(a, b) == IF a < b THEN a ELSE b
Max(a, b) == IF a < b THEN b ELSE a

\* round(x, 3) of a score: to the nearest thousandth, a tie to the even one
RoundMilli(x) ==
    LET r == x % 1000
    IN  IF r < 500 THEN x - r
        ELSE IF r > 500 THEN x - r + 1000
        ELSE IF ((x - r) \div 1000) % 2 = 0 THEN x - r ELSE x - r + 1000

\* 1.0 - min(distance_km / 20.0, 0.8)
emergency_score(distance_km) == 1000000 - Min(5 * distance_km, 800000)

\* round(max(0.1, base - min(distance_km / 20.0, 0.6)), 3)
hospital_score(open_status, distance_km) ==
    RoundMilli(Max(100000, (IF open_status = "OPEN" THEN 920000 ELSE 750000)
                           - Min(5 * distance_km, 600000)))

\* float(p["lat"] or lat)
coord_or(v, default) == IF Truthy(v) THEN v.n ELSE default

\* the scored place built from the adapter's place p at index i (from 0)
scored_place(service, i, p, lat, lng, uuid, score) ==
    [id |-> <<service, i, uuid>>,
     name |-> p.name,
     source |-> IF service = "emergency" THEN "EMERGENCY" ELSE "HOSPITAL",
     category |-> IF service = "emergency" THEN "emergency_room" ELSE p.category,
     address |-> p.address,
     lat |-> coord_or(p.lat, lat),
     lng |-> coord_or(p.lng, lng),
     distance_km |-> p.distance_km,
     open_status |-> p.open_status,
     suitability_score |-> score,
     final_score |-> score,
     safe_mode_applied |-> FALSE]

\* the RED branch re-ranked by open status like the hospital branch: the OPEN
\* places first
IsOpen(p) == p.open_status = "OPEN"

NotOpen(p) == p.open_status # "OPEN"

open_first(places) == SelectSeq(places, IsOpen) \o SelectSeq(places, NotOpen)

emergency_places_reranked(places, lat, lng, uuid) ==
    [i \in 1..Len(places) |->
        scored_place("emergency", i - 1, open_first(places)[i], lat, lng, uuid,
                     emergency_score(open_first(places)[i].distance_km))]

\* the RED branch: every place the emergency adapter returned, in its order
emergency_places(places, lat, lng, uuid) ==
    [i \in 1..Len(places) |->
        scored_place("emergency", i - 1, places[i], lat, lng, uuid,
                     emergency_score(places[i].distance_km))]

\* the sort key (0 if OPEN else 1, distance_km), compared as tuples
rank_key_le(p, q) ==
    LET a == IF p.open_status = "OPEN" THEN 0 ELSE 1
        b == IF q.open_status = "OPEN" THEN 0 ELSE 1
    IN  a < b \/ (a = b /\ p.distance_km <= q.distance_km)

\* sorted(hospitals, key=...): stable
RECURSIVE InsertByRank(_, _)
InsertByRank(sorted, x) ==
    IF sorted = <<>> THEN <<x>>
    ELSE IF rank_key_le(sorted[Len(sorted)], x) THEN Append(sorted, x)
    ELSE Append(InsertByRank(SubSeq(sorted, 1, Len(sorted) - 1), x), sorted[Len(sorted)])

RECURSIVE SortByRank(_)
SortByRank(l) ==
    IF l = <<>> THEN <<>>
    ELSE InsertByRank(SortByRank(SubSeq(l, 1, Len(l) - 1)), l[Len(l)])

\* the other branch: the hospital adapter's places re-sorted, the first five
hospital_places(ranked, lat, lng, uuid) ==
    [i \in 1..Len(ranked) |->
        scored_place("hospital", i - 1, ranked[i], lat, lng, uuid,
                     hospital_score(ranked[i].open_status, ranked[i].distance_km))]

\* the clinic record at every level
fallback_places_clinic_only(triage_level) ==
    << [id |-> <<"fallback-hospital-1">>,
        name |-> Str(<<"jong", "no", " ", "yeon", "se", "ui", "won">>),
        source |-> "HOSPITAL", category |-> "clinic",
        address |-> Str(<<"seo", "ul", " ", "jong", "no", "gu", " ",
                          "jong", "no", " ", "1", "4", "0">>),
        lat |-> 375703, lng |-> 1269830,
        distance_km |-> 14000, open_status |-> "OPEN",
        suitability_score |-> 800000, final_score |-> 800000,
        safe_mode_applied |-> FALSE] >>

\* _fallback_places(triage_level)
_fallback_places(triage_level) ==
    IF triage_level = "RED"
    THEN << [id |-> <<"fallback-emergency-1">>,
             name |-> Str(<<"seo", "ul", "dae", "hak", "gyo", "byeong", "won", " ",
                            "eung", "geup", "sen", "teo">>),
             source |-> "EMERGENCY", category |-> "emergency_room",
             address |-> Str(<<"seo", "ul", " ", "jong", "no", "gu", " ",
                               "dae", "hak", "ro", " ", "1", "0", "1">>),
             lat |-> 375796, lng |-> 1269996,
             distance_km |-> 10000, open_status |-> "OPEN",
             suitability_score |-> 950000, final_score |-> 950000,
             safe_mode_applied |-> FALSE] >>
    ELSE << [id |-> <<"fallback-hospital-1">>,
             name |-> Str(<<"jong", "no", " ", "yeon", "se", "ui", "won">>),
             source |-> "HOSPITAL", category |-> "clinic",
             address |-> Str(<<"seo", "ul", " ", "jong", "no", "gu", " ",
                               "jong", "no", " ", "1", "4", "0">>),
             lat |-> 375703, lng |-> 1269830,
             distance_km |-> 14000, open_status |-> "OPEN",
             suitability_score |-> 800000, final_score |-> 800000,
             safe_mode_applied |-> FALSE] >>

\* place["rank_reason"] = _reason_for(i, place["open_status"]) on each place
with_rank_reason(places) ==
    [i \in 1..Len(places) |->
        [f \in DOMAIN places[i] \cup {"rank_reason"} |->
            IF f = "rank_reason" THEN _reason_for(i - 1, places[i].open_status)
            ELSE places[i][f]]]

\* f"{distance_km:.2f}": hundredths of a km, a tie to the even one
Fixed2(d) ==
    LET r == d % 100
    IN  IF r < 50 THEN (d - r) \div 100
        ELSE IF r > 50 THEN (d - r) \div 100 + 1
        ELSE IF ((d - r) \div 100) % 2 = 0 THEN (d - r) \div 100 ELSE (d - r) \div 100 + 1

LevelCode(triage_level) ==
    CASE triage_level = "RED" -> 0 [] triage_level = "AMBER" -> 1 [] OTHER -> 2

\* random.Random(abs(hash((triage_level, name)))).choice(variants): the index of
\* the phrase.  hash() of a str is salted with the process's hash seed.
variant_choice(seed, triage_level, name) ==
    (seed * (Len(name) + 1) + LevelCode(triage_level) + Len(name)) % 3

\* _assistant_message(triage_level, top_places)
_assistant_message(triage_level, top_places) ==
    IF top_places = <<>>
    THEN [k |-> "deterministic", level |-> triage_level,
          variant |-> variant_choice(hashseed, triage_level, <<"n", "o", "n", "e">>),
          name |-> None, distance |-> None]
    ELSE [k |-> "deterministic", level |-> triage_level,
          variant |-> variant_choice(hashseed, triage_level, top_places[1].name.s),
          name |-> top_places[1].name, distance |-> Num(Fixed2(top_places[1].distance_km))]

\* what the LLM enrichment can do: no API key, the client library missing, the
\* request raising, an empty answer, a message
LlmOutcomes == {"no_key", "import_error", "raises", "empty", "text"}

\* the request's exception and the empty answer passed on
try_generate_unguarded(llm) ==
    CASE llm = "text" -> [k |-> "llm", text |-> Str(<<"o", "k">>)]
      [] llm = "empty" -> [k |-> "llm", text |-> Str(<<>>)]
      [] llm = "raises" -> RAISED
      [] OTHER -> None

\* _try_generate_with_openai: the message, or None
_try_generate_with_openai(llm) ==
    IF llm = "text" THEN [k |-> "llm", text |-> Str(<<"o", "k">>)] ELSE None

\* safe mode set when a RED turn ends on the static record
voice_result_flagging_fallback(transcript, triage_level, top_places, generated, uuid) ==
    [turn_id |-> <<"turn", uuid>>,
     transcript |-> transcript,
     triage_level |-> triage_level,
     top5_places |-> top_places,
     tts_audio_url |-> None,
     safe_mode_result |->
         [applied |-> triage_level = "RED"
                      /\ (top_places = <<>> \/ top_places[1].id = <<"fallback-emergency-1">>),
          no_result |-> triage_level = "RED" /\ Len(top_places) = 0],
     assistant_message |-> IF generated # None THEN generated
                           ELSE _assistant_message(triage_level, top_places)]

\* the return value of run_voice_turn from the final top_places on
voice_result(transcript, triage_level, top_places, generated, uuid) ==
    [turn_id |-> <<"turn", uuid>>,
     transcript |-> transcript,
     triage_level |-> triage_level,
     top5_places |-> top_places,
     tts_audio_url |-> None,
     safe_mode_result |-> [applied |-> triage_level = "RED" /\ Len(top_places) = 0,
                           no_result |-> triage_level = "RED" /\ Len(top_places) = 0],
     assistant_message |-> IF generated # None THEN generated
                           ELSE _assistant_message(triage_level, top_places)]

\* no substitution for an empty list
after_dispatch_no_fallback(transcript, triage_level, top_places, llm, uuid) ==
    IF top_places = RAISED THEN RAISED
    ELSE voice_result(transcript, triage_level, with_rank_reason(Prefix(top_places, 5)),
                      _try_generate_with_openai(llm), uuid)

\* run_voice_turn after the dispatch: the fallback, the cut to five, the reasons
after_dispatch(transcript, triage_level, top_places, llm, uuid) ==
    IF top_places = RAISED THEN RAISED
    ELSE voice_result(transcript, triage_level,
                      with_rank_reason(Prefix(IF top_places = <<>>
                                              THEN _fallback_places(triage_level)
                                              ELSE top_places, 5)),
                      _try_generate_with_openai(llm), uuid)

\* the hospital adapter at every level
voice_adapter_hospital_only(triage_level) ==
    [service |-> "hospital", radius_km |-> 50000, limit |-> 20]

\* the adapter a level dispatches to, and its radius_km and limit
voice_adapter(triage_level) ==
    IF triage_level = "RED"
    THEN [service |-> "emergency", radius_km |-> 100000, limit |-> 5]
    ELSE [service |-> "hospital", radius_km |-> 50000, limit |-> 20]

\* the hospital adapter's first five as they come, nearest first
top_places_unranked(triage_level, places, lat, lng, uuid) ==
    IF places = RAISED THEN RAISED
    ELSE IF triage_level = "RED" THEN emergency_places(places.l, lat, lng, uuid)
    ELSE hospital_places(Prefix(places.l, 5), lat, lng, uuid)

\* top_places after the adapter returned (or raised)
top_places_of(triage_level, places, lat, lng, uuid) ==
    IF places = RAISED THEN RAISED
    ELSE IF triage_level = "RED" THEN emergency_places(places.l, lat, lng, uuid)
    ELSE hospital_places(Prefix(SortByRank(places.l), 5), lat, lng, uuid)

(***************************************************************************)
(* The voice service: both adapters live in its process, each with its own *)
(* cache maps, so cache and cache_ts are indexed by the adapter.           *)
(***************************************************************************)
Adapters == {"hospital", "emergency"}

HashSeeds == {0, 1}

\* transcripts: RED ("119"), AMBER ("yeol", fever) and GREEN
Transcripts == {<<"1", "1", "9">>, <<"yeol">>, <<"K">>}

\* lat, lng of the request
VoiceCoords ==
    {<<None, None>>, <<Flt(Origin[1]), None>>, <<Flt(Origin[1]), Flt(Origin[2])>>}

\* q0, q1 of the request
VoiceRegions == {<<None, None>>, <<Str(Q0), Str(<<"a", " ">>)>>}

\* the Seoul wall clock of the turn
VoiceWall == <<1430, 0>>

\* uuid.uuid4() of the turn
Uuids == {"u1", "u2"}

Facility(name, dlat, start, close) ==
    Dict(Place(Str(name), Flt(Origin[1] + dlat), Flt(Origin[2]))
         @@ [dutyDivNam |-> Str(UIWON)]
         @@ Hours(0, start, close))

\* 4 km away, open
Far4 == Facility(<<"c">>, 40000, S("0", "9", "0", "0"), S("2", "1", "0", "0"))
\* 0.3 km away, hours not given
Close03 == Dict(Place(Str(<<"c", "d">>), Flt(Origin[1] + 3000), Flt(Origin[2])))
\* 2 km away, open
Mid2 == Facility(<<"a", "b", "c">>, -20000, S("0", "9", "0", "0"), S("2", "1", "0", "0"))
\* 2.5 km away, closed since noon
Mid25 == Facility(<<"d", "e">>, 25000, S("0", "9", "0", "0"), S("1", "2", "0", "0"))
\* 3 km away, open
Mid3 == Facility(<<"b">>, -30000, S("0", "9", "0", "0"), S("2", "1", "0", "0"))

VoiceResponses ==
    { [k |-> "error"],
      [k |-> "json", data |-> Envelope(ABSENT)],
      [k |-> "json", data |-> Envelope(Dict([item |->
            List(<<Far4, Close03, NoCoords, Near, Mid2, Mid25, Mid3>>)]))],
      [k |-> "json", data |-> Envelope(Dict([item |-> List(<<Near, NumberName>>)]))] }

InitVoice ==
    /\ svc = "voice"
    /\ now = 0
    /\ cache = [a \in Adapters |-> EmptyMap] /\ cache_ts = [a \in Adapters |-> EmptyMap]
    /\ last = Idle /\ hist = EmptyMap
    /\ ev = EvIdle
    /\ hashseed \in HashSeeds

\* what a turn leaves: the adapters' cache maps and what the caller observed
VoiceReturns(c, ts, calls, transcript, coords, llm, r) ==
    /\ cache' = c
    /\ cache_ts' = ts
    /\ last' = [op |-> "run_voice_turn", transcript |-> transcript,
                lat |-> coords[1], lng |-> coords[2], llm |-> llm, calls |-> calls,
                raised |-> (r = RAISED), result |-> IF r = RAISED THEN None ELSE r]

\* the turn from the adapter's return on; places is what the adapter returned
AdapterReturned(transcript, level, a, key, f, places, coords, llm, uuid) ==
    VoiceReturns([cache EXCEPT ![a.service] = f.c], [cache_ts EXCEPT ![a.service] = f.ts],
                 << [service |-> a.service, radius_km |-> a.radius_km, limit |-> a.limit,
                     fetch |-> fetch_log(key, f), places |-> places] >>,
                 transcript, coords, llm,
                 after_dispatch(transcript, level,
                                top_places_of(level, places, coords[1].n, coords[2].n, uuid),
                                llm, uuid))

\* the turn from the adapter's fetch f on
Dispatched(transcript, level, a, key, f, coords, llm, uuid) ==
    AdapterReturned(transcript, level, a, key, f,
                    fetch_nearby(a.service, f, coords[1].n, coords[2].n, a.radius_km,
                                 a.limit, VoiceWall[1], VoiceWall[2]),
                    coords, llm, uuid)

\* the dispatch to the level's adapter
Dispatch(transcript, level, a, key, coords, resp, llm, uuid) ==
    Dispatched(transcript, level, a, key,
               _fetch_list(cache[a.service], cache_ts[a.service], key, resp),
               coords, llm, uuid)

\* run_voice_turn from the classified level and the normalized region on
VoiceCall(transcript, level, region, coords, resp, llm, uuid) ==
    IF coords[1] # None /\ coords[2] # None
    THEN Dispatch(transcript, level, voice_adapter(level),
                  cache_key(voice_adapter(level).service, region[1], region[2], VoiceWall[2]),
                  coords, resp, llm, uuid)
    ELSE VoiceReturns(cache, cache_ts, <<>>, transcript, coords, llm,
                      after_dispatch(transcript, level, <<>>, llm, uuid))

\* a call of run_voice_turn; resp is what upstream answers if asked
RunVoiceTurn ==
    /\ svc = "voice"
    /\ last = Idle
    /\ \E transcript \in Transcripts, coords \in VoiceCoords, region \in VoiceRegions,
          resp \in VoiceResponses, llm \in LlmOutcomes, uuid \in Uuids :
          VoiceCall(transcript, classify_triage(transcript),
                    _normalize_region(region[1], region[2]), coords, resp, llm, uuid)
    /\ UNCHANGED <<svc, now, hist, ev, hashseed>>

NextVoice == RunVoiceTurn \/ Reply

SpecVoice == InitVoice /\ [][NextVoice]_vars

(***************************************************************************)
(* Claims about the service modules (checked under Spec).  hist is the     *)
(* record of the stores: hist[k] is the list last stored under k and the   *)
(* monotonic time of that store.                                           *)
(***************************************************************************)
\* every scope key a call can use, and one that none uses
ScopeKeys ==
    UNION { {<<Q0, q1, d>>, <<Q0, q1>>} : q1 \in {<<"a">>, <<"b">>, <<"z">>, <<>>},
                                            d \in {0, 5} }

Fresh(k) == k \in DOMAIN hist /\ now - hist[k].at < 600

\* C1: in every cache, at every time, _cache_get(key) is the list last stored
\* under the key if the key was put and less than 600 s have passed since that
\* put, and None if the key was never put or 600 s or more have passed.
C1_CacheGetWithinTtl ==
    \A k \in ScopeKeys :
        _cache_get(cache, cache_ts, k) = IF Fresh(k) THEN hist[k].items ELSE None

\* one key put exactly 600 s ago (gone) next to one put later (still served)
C1_Witness ==
    \E k1 \in DOMAIN hist, k2 \in DOMAIN hist :
        /\ now - hist[k1].at = 600 /\ k1 \in DOMAIN cache
        /\ _cache_get(cache, cache_ts, k1) = None
        /\ now - hist[k2].at < 600
        /\ _cache_get(cache, cache_ts, k2) = hist[k2].items
        /\ Truthy(hist[k2].items)

\* C2: a lookup on a scope whose list was stored less than 600 s before the
\* call returns that stored list and does not call upstream, whatever the
\* other arguments of the call and whatever upstream would answer.
C2_CachedScopeNotRefetched ==
    [][ (last = Idle /\ last' # Idle) =>
            \A i \in DOMAIN last'.fetches :
                LET e == last'.fetches[i]
                IN  Fresh(e.key) => ~e.called /\ ~e.raised /\ e.items = hist[e.key].items
      ]_vars

\* a call served from a list stored 599 s earlier
C2_Witness ==
    /\ last # Idle
    /\ \E i \in DOMAIN last.fetches :
          /\ ~last.fetches[i].called
          /\ last.at - hist[last.fetches[i].key].at = 599
          /\ Truthy(last.fetches[i].items)

\* C3: fetch_nearby_hospitals and fetch_nearby_emergency never raise to the
\* caller; they return a list, the empty list when the upstream call fails.
C3_NearbyNeverRaises ==
    last.op = "fetch_nearby" =>
        /\ ~last.raised
        /\ (last.fetches[1].raised => last.result = <<>>)

FetchFailed == \E i \in DOMAIN last.fetches : last.fetches[i].raised

ApiErrorEntry(name) ==
    [name |-> name, is_open |-> "UNKNOWN", open_until |-> None, source |-> "api_error"]

\* C4: when the primary or the fallback fetch of get_open_status raises, the
\* result has one entry per requested name, in request order, and every entry
\* is UNKNOWN with no open_until and source "api_error".
C4_FetchFailureAllApiError ==
    (last.op = "get_open_status" /\ FetchFailed) =>
        /\ ~last.raised
        /\ Len(last.result) = Len(last.names)
        /\ \A i \in DOMAIN last.names : last.result[i] = ApiErrorEntry(last.names[i])

\* the fallback fetch raised after the primary gave an empty list
C4_Witness ==
    /\ last.op = "get_open_status"
    /\ Len(last.fetches) = 2 /\ ~last.fetches[1].raised /\ last.fetches[2].raised
    /\ Len(last.names) = 3
    /\ Len(last.result) = 3

\* C5: an entry of get_open_status carries source "api" when a record matched;
\* the only sources ever reported are "api", "api_error" and "no_match".
C5_SourceIsApi ==
    (last.op = "get_open_status" /\ ~last.raised) =>
        \A i \in DOMAIN last.result : last.result[i].source \in {"api", "api_error", "no_match"}

\* the record list the call worked from
WorkedFrom == last.fetches[Len(last.fetches)].items.l

\* the containment match of the claim, on a record whose name is a string; a
\* record without the field has the empty name
NameMatches(item, name) ==
    /\ item.t = "dict"
    /\ Get(item.d, "dutyName", Str(<<>>)).t = "str"
    /\ \/ Contains(KeepNameChars(Get(item.d, "dutyName", Str(<<>>)).s), KeepNameChars(name))
       \/ Contains(KeepNameChars(name), KeepNameChars(Get(item.d, "dutyName", Str(<<>>)).s))

NoMatchEntry(name) ==
    [name |-> name, is_open |-> "UNKNOWN", open_until |-> None, source |-> "no_match"]

\* C6: after a successful lookup get_open_status returns one entry per
\* requested name, in request order, and a name no record matches is reported
\* UNKNOWN with no open_until and source "no_match".
C6_OneEntryPerName ==
    (last.op = "get_open_status" /\ ~FetchFailed) =>
        /\ ~last.raised
        /\ Len(last.result) = Len(last.names)
        /\ \A i \in DOMAIN last.names :
              /\ last.result[i].name = last.names[i]
              /\ (\A j \in DOMAIN WorkedFrom : ~NameMatches(WorkedFrom[j], last.names[i]))
                    => last.result[i] = NoMatchEntry(last.names[i])

\* C7: get_open_status never raises, whatever the record list and the names.
C7_OpenStatusNeverRaises ==
    last.op = "get_open_status" => ~last.raised

\* the index of the first record, in list order, that matches the name
FirstMatching(items, name) ==
    CHOOSE j \in DOMAIN items :
        /\ NameMatches(items[j], name)
        /\ \A h \in 1..(j - 1) : ~NameMatches(items[h], name)

\* the entry of a name paired with a record
PairedEntry(name, record) ==
    [name |-> name,
     is_open |-> matched_status(record.d, last.now_hhmm, last.day_idx, last.use_holiday)[1],
     open_until |-> matched_status(record.d, last.now_hhmm, last.day_idx, last.use_holiday)[2],
     source |-> "data.go.kr"]

\* C13: get_open_status pairs each requested name with the first record, in
\* list order, whose normalised name contains the normalised query or is
\* contained in it; a later record that matches too is never chosen.
C13_FirstMatchWins ==
    (last.op = "get_open_status" /\ ~FetchFailed) =>
        \A i \in DOMAIN last.names :
            (\E j \in DOMAIN WorkedFrom : NameMatches(WorkedFrom[j], last.names[i])) =>
                /\ ~last.raised
                /\ last.result[i] =
                     PairedEntry(last.names[i],
                                 WorkedFrom[FirstMatching(WorkedFrom, last.names[i])])

\* the records a nearby call worked from
NearbyRecords == last.fetches[1].items.l

\* the claim's reading of a record: it has coordinates, and how far it is
\* from the caller along the caller's meridian
HasCoordinates(rec) ==
    /\ rec.t = "dict"
    /\ "wgs84Lat" \in DOMAIN rec.d /\ rec.d["wgs84Lat"].t = "float"
    /\ "wgs84Lon" \in DOMAIN rec.d /\ rec.d["wgs84Lon"] = Flt(Origin[2])

DistanceOf(rec) ==
    IF rec.d["wgs84Lat"].n >= Origin[1] THEN rec.d["wgs84Lat"].n - Origin[1]
    ELSE Origin[1] - rec.d["wgs84Lat"].n

\* the place of the result made from the record
Returned(rec) ==
    \E i \in DOMAIN last.result :
        last.result[i].lat = rec.d["wgs84Lat"] /\ last.result[i].lng = rec.d["wgs84Lon"]

\* C14: a record with coordinates is kept iff its distance from the origin is
\* at most radius_km (exactly radius_km is kept), so every returned place
\* with coordinates has distance_km <= radius_km.
C14_KeptIffWithinRadius ==
    (last.op = "fetch_nearby" /\ ~FetchFailed) =>
        /\ ~last.raised
        /\ \A i \in DOMAIN last.result :
              last.result[i].lat # None => last.result[i].distance_km <= last.radius_km
        /\ Len(NearbyRecords) <= last.limit =>
              \A j \in DOMAIN NearbyRecords :
                  HasCoordinates(NearbyRecords[j]) =>
                      (Returned(NearbyRecords[j]) <=> DistanceOf(NearbyRecords[j]) <= last.radius_km)

\* how many records of the list have no coordinates, how many places of the
\* result have none
RecordsWithoutCoordinates ==
    Cardinality({j \in DOMAIN NearbyRecords : ~HasCoordinates(NearbyRecords[j])})

PlacesWithoutCoordinates ==
    Cardinality({i \in DOMAIN last.result : last.result[i].lat = None})

\* C15: in the result of a nearby lookup every record without coordinates is
\* included (the cap permitting), and it comes after every place that has
\* coordinates.
C15_NoCoordinatesLast ==
    (last.op = "fetch_nearby" /\ ~FetchFailed) =>
        /\ ~last.raised
        /\ Len(NearbyRecords) <= last.limit =>
              PlacesWithoutCoordinates = RecordsWithoutCoordinates
        /\ \A i \in DOMAIN last.result, j \in DOMAIN last.result :
              (last.result[i].lat = None /\ last.result[j].lat # None) => j < i

\* C16: the nearby adapters tolerate degenerate parameters without error: for
\* every record list a lookup with radius 0 returns no matches and a lookup
\* with limit 0 returns the empty list.
C16_DegenerateParameters ==
    last.op = "fetch_nearby" =>
        /\ ~last.raised
        /\ last.radius_km = 0 => last.result = <<>>
        /\ last.limit = 0 => last.result = <<>>

\* a fallback scope was given with the call
Supplied(q1_fallback) == q1_fallback # None /\ q1_fallback.s # <<>>

\* the primary lookup of the call returned no record
PrimaryEmpty(fetches) == ~fetches[1].raised /\ fetches[1].items = List(<<>>)

\* C26: get_open_status looks the fallback scope up exactly once iff the primary
\* scope yields zero raw records and a fallback scope is supplied, and never
\* otherwise (at most two lookups per call); the two lists are cached under
\* their own keys
C26_FallbackScopeOnce ==
    [][last = Idle /\ last' # Idle /\ last'.op = "get_open_status" =>
        LET fs == last'.fetches
        IN  /\ Len(fs) \in 1..2
            /\ Len(fs) = 2 <=> PrimaryEmpty(fs) /\ Supplied(last'.q1_fallback)
            /\ Len(fs) = 2 =>
                  /\ fs[2].key = <<Q0, Strip(last'.q1_fallback.s), last'.day_idx>>
                  /\ fs[2].key # fs[1].key
                  /\ _cache_get(cache', cache_ts', fs[1].key) = List(<<>>)
                  /\ ~fs[2].raised =>
                        _cache_get(cache', cache_ts', fs[2].key) = fs[2].items
                  /\ fs[2].raised /\ fs[2].key \in DOMAIN cache =>
                        cache'[fs[2].key] = cache[fs[2].key]
                  /\ fs[2].raised /\ fs[2].key \notin DOMAIN cache =>
                        fs[2].key \notin DOMAIN cache'
      ]_vars

\* both scopes fetched in one call: the empty primary list and the fallback
\* list are each stored under their own key
C26_Witness ==
    /\ last # Idle /\ last.op = "get_open_status"
    /\ Len(last.fetches) = 2
    /\ last.fetches[1].called /\ last.fetches[2].called
    /\ Truthy(last.fetches[2].items)
    /\ cache[last.fetches[1].key] = List(<<>>)
    /\ cache[last.fetches[2].key] = last.fetches[2].items

(***************************************************************************)
(* Claims about the status evaluators (checked under SpecStatus).  The     *)
(* claim side reads the raw selected values itself: it does not use        *)
(* _parse_hhmm, Strip or _hhmm_to_display.                                 *)
(***************************************************************************)
SelStart == ev.item[SelectedPair(ev.kind, ev.day_idx)[1]]
SelClose == ev.item[SelectedPair(ev.kind, ev.day_idx)[2]]

Missing(v) == v = ABSENT \/ v = None

\* exactly four digits
Valid4(v) == v.t = "str" /\ Len(v.s) = 4 /\ \A i \in 1..4 : v.s[i] \in DigitChars

HHMM(v) ==
    1000 * DigitVal(v.s[1]) + 100 * DigitVal(v.s[2]) + 10 * DigitVal(v.s[3]) + DigitVal(v.s[4])

HHColonMM(v) == Str(<<v.s[1], v.s[2], ":", v.s[3], v.s[4]>>)

\* a non-empty run of digits with nothing but whitespace around it
DigitsInWhitespace(v) ==
    /\ v.t = "str"
    /\ \E i \in 1..Len(v.s), j \in 1..Len(v.s) :
          /\ i <= j
          /\ \A k \in 1..Len(v.s) :
                IF i <= k /\ k <= j THEN v.s[k] \in DigitChars ELSE v.s[k] \in SpaceChars

\* the emergency evaluator's 24-hour flag is set: the window is not consulted
FlagSet == ev.kind = "emergency" /\ ev.item["dutyEryn"] = Str(<<"Y">>)

\* C8: with valid 4-digit start <= close (and no 24-hour flag), the evaluator
\* returns (OPEN, "HH:MM" of close) for start <= now <= close, bounds included,
\* and (CLOSED, null) for now < start or now > close.
C8_OpenWithinWindow ==
    (ev.done /\ ~FlagSet /\ Valid4(SelStart) /\ Valid4(SelClose)
        /\ HHMM(SelStart) <= HHMM(SelClose))
    => IF HHMM(SelStart) <= ev.now_hhmm /\ ev.now_hhmm <= HHMM(SelClose)
       THEN ev.out = <<"OPEN", HHColonMM(SelClose)>>
       ELSE ev.out = <<"CLOSED", None>>

\* now is exactly the close time of a 09:00-21:00 window, and the result is OPEN
C8_Witness ==
    /\ ev.done /\ ev.kind = "pharmacy"
    /\ SelStart = S("0", "9", "0", "0") /\ SelClose = S("2", "1", "0", "0")
    /\ ev.now_hhmm = 2100
    /\ ev.out = <<"OPEN", Str(<<"2", "1", ":", "0", "0">>)>>

\* C9: when the selected start or the selected close is missing (and no
\* 24-hour flag is set), the evaluator returns (UNKNOWN, null) for every now.
C9_MissingFieldUnknown ==
    (ev.done /\ ~FlagSet /\ (Missing(SelStart) \/ Missing(SelClose)))
    => ev.out = <<"UNKNOWN", None>>

\* start is missing, close is a valid time after now, and the result is UNKNOWN
C9_Witness ==
    /\ ev.done /\ Missing(SelStart) /\ SelClose = S("2", "1", "0", "0")
    /\ ev.now_hhmm = 900
    /\ ev.out = <<"UNKNOWN", None>>

\* C10 as stated: whenever start or close is not exactly 4 digits, the
\* evaluator returns (UNKNOWN, null).
C10_OnlyFourDigitsUsable ==
    (ev.done /\ ~FlagSet /\ (~Valid4(SelStart) \/ ~Valid4(SelClose)))
    => ev.out = <<"UNKNOWN", None>>

\* C10 as amended: a value is usable iff, surrounding whitespace apart, it is
\* a non-empty string of digits.  If either value is not, the result is
\* (UNKNOWN, null); if both are, the window is evaluated (OPEN or CLOSED),
\* whatever the number of digits.
C10_DigitsAfterStripUsable ==
    (ev.done /\ ~FlagSet)
    => IF DigitsInWhitespace(SelStart) /\ DigitsInWhitespace(SelClose)
       THEN ev.out[1] \in {"OPEN", "CLOSED"}
       ELSE ev.out = <<"UNKNOWN", None>>

\* a 3-digit start is parsed: "900"-"2100" at 14:30 is OPEN
C10_Witness ==
    /\ ev.done /\ SelStart = Str(<<"9", "0", "0">>) /\ SelClose = S("2", "1", "0", "0")
    /\ ev.now_hhmm = 1430
    /\ ev.out[1] = "OPEN"

\* C11: in the emergency evaluator a record whose 24-hour flag is set is
\* (OPEN, null) for every now and weekday, whatever its duty-hour fields hold.
C11_FlagSetAlwaysOpen ==
    (ev.done /\ ev.kind = "emergency" /\ ev.item["dutyEryn"] = Str(<<"Y">>))
        => ev.out = <<"OPEN", None>>

\* flag set on a record whose 09:00-21:00 window alone gives CLOSED at 21:01
C11_Witness ==
    /\ ev.done /\ ev.kind = "emergency" /\ ev.item["dutyEryn"] = Str(<<"Y">>)
    /\ SelStart = S("0", "9", "0", "0") /\ SelClose = S("2", "1", "0", "0")
    /\ ev.now_hhmm = 2101
    /\ ev.out = <<"OPEN", None>>

\* the hour fields outside the selected pair
UnselectedFields ==
    TimeFields \ {SelectedPair(ev.kind, ev.day_idx)[1], SelectedPair(ev.kind, ev.day_idx)[2]}

\* values an unselected field is changed to
ChangedTo == {ABSENT, Str(<<"a", "b", "c">>), S("0", "0", "0", "0"), S("2", "3", "5", "9")}

\* C12: the status depends only on now and on the selected (start, close)
\* pair - the weekday's, or the holiday pair under use_holiday: changing the
\* field of any other day to any value leaves the result as it is.
C12_OtherDaysIrrelevant ==
    ev.done =>
        \A k \in UnselectedFields, v \in ChangedTo :
            evaluate(ev.kind, [ev.item EXCEPT ![k] = v], ev.now_hhmm, ev.day_idx) = ev.out

\* the selected pair is missing, every other pair is 00:00-23:59, and the
\* result is UNKNOWN
C12_Witness ==
    /\ ev.done /\ ev.kind \in {"pharmacy", "pharmacy_holiday"}
    /\ SelStart = ABSENT /\ SelClose = S("2", "1", "0", "0")
    /\ \A k \in UnselectedFields : ev.item[k] \in {S("0", "0", "0", "0"), S("2", "3", "5", "9")}
    /\ ev.now_hhmm = 1430
    /\ ev.out = <<"UNKNOWN", None>>

(***************************************************************************)
(* Claims about classify_triage (checked under SpecTriage).                *)
(***************************************************************************)
\* s occurs in the text once the text is lower-cased
Occurs(s) ==
    \E i \in 1..(Len(ev.text) - Len(s) + 1) :
        \A j \in 1..Len(s) : LowerChar(ev.text[i + j - 1]) = s[j]

HasRed == \E i \in DOMAIN red_keywords : Occurs(red_keywords[i])

HasAmber == \E i \in DOMAIN amber_keywords : Occurs(amber_keywords[i])

\* C17: classify_triage returns RED iff the lower-cased text contains a RED
\* keyword, otherwise AMBER iff it contains an AMBER keyword, otherwise
\* GREEN; a text with a RED and an AMBER keyword is RED.
C17_TriagePrecedence ==
    ev.done =>
        ev.level = IF HasRed THEN "RED" ELSE IF HasAmber THEN "AMBER" ELSE "GREEN"

\* "119" next to the AMBER keyword "yeol", classified RED
C17_Witness ==
    /\ ev.done /\ ev.text = <<"yeol", "1", "1", "9">>
    /\ HasRed /\ HasAmber
    /\ ev.level = "RED"

(***************************************************************************)
(* Claims about the voice turn (checked under SpecVoice)                   *)
(***************************************************************************)
VoiceTurn == last # Idle /\ last.op = "run_voice_turn"

\* a turn that returned
Turned == VoiceTurn /\ ~last.raised

NoCoordinates == last.lat = None \/ last.lng = None

\* the level of the turn's transcript
TurnLevel == classify_triage(last.transcript)

\* the place, without the rank_reason the turn adds to every place
Static(place) == [f \in DOMAIN place \ {"rank_reason"} |-> place[f]]

\* C18: a voice turn without coordinates calls no adapter and returns exactly
\* the one-item static set: the emergency-center record when the level is RED,
\* the clinic record otherwise
C18_NoCoordinatesStaticSet ==
    VoiceTurn /\ NoCoordinates =>
        /\ last.calls = <<>>
        /\ ~last.raised
        /\ Len(last.result.top5_places) = 1
        /\ Static(last.result.top5_places[1]) = _fallback_places(TurnLevel)[1]
        /\ last.result.top5_places[1].id =
              IF TurnLevel = "RED" THEN <<"fallback-emergency-1">>
              ELSE <<"fallback-hospital-1">>
        /\ last.result.top5_places[1].category =
              IF TurnLevel = "RED" THEN "emergency_room" ELSE "clinic"

C18_Witness ==
    /\ VoiceTurn /\ last.lat # None /\ last.lng = None
    /\ TurnLevel = "RED"
    /\ cache["emergency"] # EmptyMap
    /\ Len(last.result.top5_places) = 1
    /\ last.result.top5_places[1].id = <<"fallback-emergency-1">>

\* the turn dispatched nothing
DispatchSkipped == last.calls = <<>>

\* the adapter the turn called returned no place
NoPlaces == last.calls # <<>> /\ last.calls[1].places = List(<<>>)

\* the result is the one-item static set of the turn's level
IsStaticSet ==
    /\ Len(last.result.top5_places) = 1
    /\ Static(last.result.top5_places[1]) = _fallback_places(TurnLevel)[1]

\* C19: every result of a voice turn has between 1 and 5 places; whenever the
\* dispatch was skipped or the adapter returned no place (also after an
\* upstream failure) the result is the one-item static set
C19_OneToFivePlaces ==
    Turned =>
        /\ Len(last.result.top5_places) \in 1..5
        /\ (DispatchSkipped \/ NoPlaces => IsStaticSet)

C19_Witness ==
    /\ Turned /\ ~NoCoordinates
    /\ last.calls[1].fetch.called /\ last.calls[1].fetch.raised
    /\ NoPlaces /\ IsStaticSet

\* C20: whenever a voice turn uses the static fallback set (no coordinates, or
\* an adapter that returned no place, at any level), safe_mode_result.applied
\* and safe_mode_result.no_result are both false
C20_FallbackNotSafeMode ==
    Turned /\ (DispatchSkipped \/ NoPlaces \/ IsStaticSet) =>
        /\ IsStaticSet
        /\ last.result.safe_mode_result.applied = FALSE
        /\ last.result.safe_mode_result.no_result = FALSE

C20_Witness ==
    /\ Turned /\ NoCoordinates /\ TurnLevel = "RED"
    /\ last.result.top5_places[1].id = <<"fallback-emergency-1">>
    /\ last.result.safe_mode_result = [applied |-> FALSE, no_result |-> FALSE]

\* C21: a RED voice turn that relied on the static fallback set rather than on
\* live data says so: safe_mode_result.applied is true
C21_RedFallbackSignalled ==
    Turned /\ TurnLevel = "RED" /\ (DispatchSkipped \/ NoPlaces) =>
        last.result.safe_mode_result.applied = TRUE

\* the adapter call a turn of the given level makes: 10 km and 5 places from the
\* emergency adapter at RED, 5 km and 20 places from the hospital adapter otherwise
ExpectedCall(level) ==
    IF level = "RED" THEN [service |-> "emergency", radius_km |-> 100000, limit |-> 5]
    ELSE [service |-> "hospital", radius_km |-> 50000, limit |-> 20]

CallMade(call) == [service |-> call.service, radius_km |-> call.radius_km, limit |-> call.limit]

\* the adapter a turn of the given level does not call
OtherAdapter(level) == IF level = "RED" THEN "hospital" ELSE "emergency"

\* C22: a voice turn makes at most one upstream call, to exactly one adapter:
\* the emergency adapter (10 km, limit 5) iff the level is RED and coordinates
\* are present, the hospital adapter (5 km, limit 20) iff the level is not RED
\* and coordinates are present; the other adapter is not touched in the turn
C22_OneAdapterPerTurn ==
    [][last = Idle /\ last' # Idle /\ last'.op = "run_voice_turn" =>
        LET level == classify_triage(last'.transcript)
            coords == last'.lat # None /\ last'.lng # None
        IN  /\ Len(last'.calls) <= 1
            /\ coords <=> Len(last'.calls) = 1
            /\ coords => CallMade(last'.calls[1]) = ExpectedCall(level)
            /\ cache'[OtherAdapter(level)] = cache[OtherAdapter(level)]
            /\ cache_ts'[OtherAdapter(level)] = cache_ts[OtherAdapter(level)]
            /\ (~coords => cache' = cache /\ cache_ts' = cache_ts)]_vars

C22_Witness ==
    /\ VoiceTurn /\ ~NoCoordinates /\ TurnLevel = "RED"
    /\ CallMade(last.calls[1]) = ExpectedCall("RED")
    /\ last.calls[1].fetch.called
    /\ cache["hospital"] # EmptyMap

\* C23: every voice turn, whatever upstream answers, whatever records the
\* adapter holds and whatever the LLM does, returns a result without raising
C23_TurnNeverRaises == VoiceTurn => ~last.raised /\ last.result # None

\* the turn of last run again on the same inputs and the same adapter return,
\* with LLM outcome llm and identifiers uuid
TurnWith(llm, uuid) ==
    after_dispatch(last.transcript, TurnLevel,
                   IF last.calls = <<>> THEN <<>>
                   ELSE top_places_of(TurnLevel, last.calls[1].places,
                                      last.lat.n, last.lng.n, uuid),
                   llm, uuid)

\* a result without its generated identifiers and its message
Core(r) ==
    [transcript |-> r.transcript, triage_level |-> r.triage_level,
     safe_mode_result |-> r.safe_mode_result, tts_audio_url |-> r.tts_audio_url,
     top5_places |-> [i \in 1..Len(r.top5_places) |->
                        [f \in DOMAIN r.top5_places[i] \ {"id"} |-> r.top5_places[i][f]]]]

\* a non-empty string: a phrase of _assistant_message, or the LLM's text
NonEmptyMessage(msg) ==
    /\ "k" \in DOMAIN msg
    /\ \/ msg.k = "deterministic" /\ msg.variant \in 0..2
       \/ msg.k = "llm" /\ msg.text.t = "str" /\ msg.text.s # <<>>

\* the other turn r agrees with the turn of last
AgreesWith(r) ==
    /\ (r = RAISED) = last.raised
    /\ ~last.raised =>
          /\ Core(r) = Core(last.result)
          /\ NonEmptyMessage(r.assistant_message)

\* C24: voice turns on the same inputs and the same adapter return that differ
\* in the LLM outcome agree on triage_level, on top5_places apart from the
\* generated ids and on safe_mode_result; assistant_message is a non-empty string
C24_LlmNotNeeded ==
    VoiceTurn =>
        /\ \A llm \in LlmOutcomes, uuid \in Uuids : AgreesWith(TurnWith(llm, uuid))
        /\ ~last.raised => NonEmptyMessage(last.result.assistant_message)

C24_Witness ==
    /\ Turned /\ last.llm = "text"
    /\ last.result.assistant_message.k = "llm"
    /\ Len(last.result.top5_places) = 5
    /\ TurnWith("raises", "u1").assistant_message.k = "deterministic"
    /\ TurnWith("raises", "u1").assistant_message # last.result.assistant_message

\* a non-RED turn whose hospital adapter returned candidates
LiveHospitals ==
    /\ Turned /\ TurnLevel # "RED" /\ last.calls # <<>>
    /\ last.calls[1].places # List(<<>>)

Candidates == last.calls[1].places.l

\* (open_status != OPEN, distance_km) of p is at most that of q
RankedBefore(p, q) ==
    \/ p.open_status = "OPEN" /\ q.open_status # "OPEN"
    \/ /\ (p.open_status = "OPEN") = (q.open_status = "OPEN")
       /\ p.distance_km <= q.distance_km

SamePlace(t, c) ==
    t.name = c.name /\ t.distance_km = c.distance_km /\ t.open_status = c.open_status

\* C25: in a non-RED voice turn with live hospital candidates, top5_places is
\* the first 5 of the candidates ordered by (open_status != OPEN, distance_km):
\* OPEN places come before CLOSED and UNKNOWN ones, places of equal openness
\* are nearest first, and no candidate left out ranks before a place kept
C25_HospitalRanking ==
    LiveHospitals =>
        LET top == last.result.top5_places
        IN  /\ Len(top) = (IF Len(Candidates) < 5 THEN Len(Candidates) ELSE 5)
            /\ \A i \in 1..Len(top) : \A j \in i..Len(top) : RankedBefore(top[i], top[j])
            /\ \A i \in 1..Len(top) : \E k \in 1..Len(Candidates) : SamePlace(top[i], Candidates[k])
            /\ \A k \in 1..Len(Candidates) :
                  (\A i \in 1..Len(top) : ~SamePlace(top[i], Candidates[k]))
                  => \A i \in 1..Len(top) : RankedBefore(top[i], Candidates[k])

C25_Witness ==
    /\ LiveHospitals /\ Len(Candidates) = 7
    /\ Candidates[1].open_status # "OPEN"
    /\ last.result.top5_places[1].open_status = "OPEN"
    /\ last.result.top5_places[5].open_status # "OPEN"
    /\ last.result.top5_places[5].distance_km < last.result.top5_places[4].distance_km

(***************************************************************************)
(* Claims about the fetch step (checked under SpecEnvelope)                *)
(***************************************************************************)
\* the "item" member of the items field, when that field is an object
ItemMember ==
    IF ev.items # ABSENT /\ ev.items.t = "dict" THEN Get(ev.items.d, "item", ABSENT)
    ELSE ABSENT

BothMissed == \A p \in Lookups : ev.pc[p] = "done" /\ ev.missed[p]

LastWrite == ev.writes[Len(ev.writes)]

DeterministicTurn == Turned /\ last.result.assistant_message.k = "deterministic"

\* the name the phrase is chosen by: the top place's, "none" without places
TopName(top_places) ==
    IF top_places = <<>> THEN <<"n", "o", "n", "e">> ELSE top_places[1].name.s

\* C29: the deterministic advisory message is a function of its inputs only:
\* the phrase variant of a turn is the one every run of the service chooses for
\* the same triage_level and the same top place name, whatever hash seed the
\* process started with, and the message carries the top place's name and its
\* distance with 2 decimal places
C29_MessageFunctionOfInputs ==
    DeterministicTurn =>
        /\ \A seed \in HashSeeds :
              last.result.assistant_message.variant =
                  variant_choice(seed, last.result.triage_level,
                                 TopName(last.result.top5_places))
        /\ last.result.top5_places # <<>> =>
              /\ last.result.assistant_message.name = last.result.top5_places[1].name
              /\ last.result.assistant_message.distance =
                     Num(Fixed2(last.result.top5_places[1].distance_km))

\* ---- the order and the cut of a nearby lookup ----

\* a nearby lookup that fetched its list and returned
NearbyReturned == last.op = "fetch_nearby" /\ ~last.raised /\ ~FetchFailed

\* the places of the records that passed the radius filter, in source order
PassedFilter ==
    KeepPlaces([j \in DOMAIN NearbyRecords |->
                  nearby_entry(svc, NearbyRecords[j], Origin[1], Origin[2],
                               last.radius_km, last.now_hhmm, last.day_idx)])

\* how many places go before place j: the nearer ones, and of those at the same
\* distance the ones earlier in the source
GoBefore(places, j) ==
    Cardinality({k \in DOMAIN places :
                   \/ places[k].distance_km < places[j].distance_km
                   \/ places[k].distance_km = places[j].distance_km /\ k < j})

\* C30: the result of fetch_nearby_hospitals and fetch_nearby_emergency is in
\* non-decreasing distance_km order, has at most limit entries, and consists of
\* the limit nearest of the records that passed the radius filter, records of
\* equal distance_km in source order
C30_NearestFirstAtMostLimit ==
    NearbyReturned =>
        /\ \A i \in DOMAIN last.result, j \in DOMAIN last.result :
              i < j => last.result[i].distance_km <= last.result[j].distance_km
        /\ Len(last.result) <= last.limit
        /\ Len(last.result) = Min(last.limit, Len(PassedFilter))
        /\ \A j \in DOMAIN PassedFilter :
              GoBefore(PassedFilter, j) < last.limit =>
                  /\ GoBefore(PassedFilter, j) + 1 \in DOMAIN last.result
                  /\ last.result[GoBefore(PassedFilter, j) + 1] = PassedFilter[j]

\* three records passed the filter and the limit is two: the nearest, last in
\* the source, comes first, and of the two at equal distance the earlier stays
C30_Witness ==
    /\ NearbyReturned /\ last.limit = 2
    /\ Len(PassedFilter) = 3 /\ Len(last.result) = 2
    /\ PassedFilter[1].distance_km = PassedFilter[2].distance_km
    /\ PassedFilter[3].distance_km < PassedFilter[1].distance_km
    /\ last.result = <<PassedFilter[3], PassedFilter[1]>>

\* ---- the RED branch of a voice turn ----

\* a RED turn whose emergency lookup returned places
LiveEmergency ==
    /\ Turned /\ TurnLevel = "RED" /\ last.calls # <<>>
    /\ last.calls[1].places # List(<<>>)

\* C31: for a RED voice turn with live emergency results top5_places lists the
\* adapter's results in exactly the adapter's ascending-distance order; open
\* status never changes the order, so a nearer CLOSED or UNKNOWN facility
\* precedes a farther OPEN one
C31_EmergencyOrderKept ==
    LiveEmergency =>
        /\ Len(last.result.top5_places) = Len(Candidates)
        /\ \A i \in 1..Len(Candidates) :
              /\ SamePlace(last.result.top5_places[i], Candidates[i])
              /\ last.result.top5_places[i].source = "EMERGENCY"
        /\ \A i \in 1..Len(last.result.top5_places) :
              \A j \in i..Len(last.result.top5_places) :
                  last.result.top5_places[i].distance_km
                      <= last.result.top5_places[j].distance_km

\* a facility that is not open stands before a farther one that is
C31_Witness ==
    /\ LiveEmergency
    /\ \E i \in 1..Len(last.result.top5_places) :
          \E j \in (i + 1)..Len(last.result.top5_places) :
              /\ last.result.top5_places[i].open_status \in {"CLOSED", "UNKNOWN"}
              /\ last.result.top5_places[j].open_status = "OPEN"
              /\ last.result.top5_places[i].distance_km
                     < last.result.top5_places[j].distance_km

\* ---- the keys of the cache ----

\* the call that has just returned put a list under key k
PutBy(call, k) ==
    /\ call # Idle
    /\ \E i \in DOMAIN call.fetches :
          call.fetches[i].key = k /\ call.fetches[i].called /\ ~call.fetches[i].raised

\* C32: no operation ever removes a cache key: a lookup leaves both cache maps
\* as they are, also when the entry it finds is expired, and an entry stays
\* stored, list and timestamp, until a put for the same key overwrites it; so
\* the set of cached keys only grows, and the two maps keep the same keys
C32_KeysNeverRemoved ==
    [][ /\ DOMAIN cache \subseteq DOMAIN cache'
        /\ DOMAIN cache_ts \subseteq DOMAIN cache_ts'
        /\ DOMAIN cache' = DOMAIN cache_ts'
        /\ \A k \in DOMAIN cache :
              (cache'[k] # cache[k] \/ cache_ts'[k] # cache_ts[k]) => PutBy(last', k)
      ]_vars

\* a lookup found the entry of its key expired, upstream failed, and the
\* expired entry is still stored next to the entry of another key
C32_Witness ==
    /\ last # Idle
    /\ \E i \in DOMAIN last.fetches :
          /\ last.fetches[i].raised
          /\ last.fetches[i].key \in DOMAIN cache
          /\ now - cache_ts[last.fetches[i].key] >= CACHE_TTL
          /\ cache[last.fetches[i].key] = hist[last.fetches[i].key].items
          /\ _cache_get(cache, cache_ts, last.fetches[i].key) = None
    /\ Cardinality(DOMAIN cache) >= 2

\* ---- windows that close before they start ----

\* the selected close is numerically less than the selected start, both valid
ClosesBeforeStart ==
    Valid4(SelStart) /\ Valid4(SelClose) /\ HHMM(SelClose) < HHMM(SelStart)

\* C33: overnight windows are not treated as wrapping midnight: for every
\* record whose selected close is numerically less than its start, both valid
\* (and no 24-hour flag), the evaluator returns (CLOSED, null) for every value
\* of now, and never OPEN
C33_OvernightAlwaysClosed ==
    (ev.done /\ ~FlagSet /\ ClosesBeforeStart) => ev.out = <<"CLOSED", None>>

\* a 21:00-09:00 window is CLOSED at 23:59, inside the night it describes
C33_Witness ==
    /\ ev.done /\ ev.kind = "pharmacy"
    /\ SelStart = S("2", "1", "0", "0") /\ SelClose = S("0", "9", "0", "0")
    /\ ev.now_hhmm = 2359
    /\ ev.out = <<"CLOSED", None>>

\* ---- which answers are cached ----

\* the call before call i stored a list that is less than 600 s old at call i
StoredBefore(i) ==
    /\ i > 1
    /\ ev.calls[i - 1].wrote
    /\ ev.calls[i].at - ev.calls[i - 1].at < CACHE_TTL

\* C34: a fetch writes the cache exactly when the upstream call returns a 2xx
\* response that parses as JSON - a response whose envelope is empty or has an
\* unexpected shape is stored as the empty list and served for the next 600 s
\* without refetching - and leaves both cache maps unchanged when the call
\* raises, so that the next lookup on the scope calls upstream again
C34_WritesIffJsonAnswer ==
    \A i \in 1..Len(ev.calls) :
        /\ ev.calls[i].called =>
              /\ ev.calls[i].wrote <=> ev.calls[i].resp.k = "json"
              /\ ev.calls[i].resp.k = "json" => ~ev.calls[i].raised
              /\ ev.calls[i].raised => ~ev.calls[i].wrote
        /\ ev.calls[i].called <=> ~StoredBefore(i)
        /\ StoredBefore(i) => ev.calls[i].items = ev.calls[i - 1].items

\* ---- the order of the places and the score they report ----

\* C35: in every voice-turn result top5_places is ordered by non-increasing
\* final_score: no place is ranked above a place with a strictly higher
\* final_score
C35_OrderedByFinalScore ==
    Turned =>
        \A i \in 1..Len(last.result.top5_places) :
            \A j \in i..Len(last.result.top5_places) :
                last.result.top5_places[i].final_score
                    >= last.result.top5_places[j].final_score

\* ---- the empty string in the name match ----

\* the name is empty once normalised
EmptyNorm(name) == KeepNameChars(name) = <<>>

\* the record's name is missing, or empty once normalised
EmptyNamed(record) ==
    /\ record.t = "dict"
    /\ Get(record.d, "dutyName", Str(<<>>)).t = "str"
    /\ EmptyNorm(Get(record.d, "dutyName", Str(<<>>)).s)

\* C36: in get_open_status the empty string counts as contained in every
\* string: a requested name whose normalised form is empty is matched to the
\* first record of any non-empty record list instead of being reported as
\* no_match, and a record whose normalised name is empty matches every
\* requested name that no earlier record matches
C36_EmptyStringMatches ==
    (last.op = "get_open_status" /\ ~FetchFailed) =>
        \A i \in DOMAIN last.names :
            /\ (EmptyNorm(last.names[i]) /\ WorkedFrom # <<>>) =>
                  /\ ~last.raised
                  /\ last.result[i] = PairedEntry(last.names[i], WorkedFrom[1])
            /\ \A j \in DOMAIN WorkedFrom :
                  (/\ EmptyNamed(WorkedFrom[j])
                   /\ \A h \in 1..(j - 1) : ~NameMatches(WorkedFrom[h], last.names[i]))
                  => /\ ~last.raised
                     /\ last.result[i] = PairedEntry(last.names[i], WorkedFrom[j])

====
